---- MODULE Spec2Model ----
(***************************************************************************)
(* A model of the encrypted record store of ssh-kim-cli                    *)
(* (cli/ssh-key-manager.js, class SSHKeyManager): key derivation, the      *)
(* envelope cipher, the load / cache / save lifecycle and the handlers     *)
(* that mutate the collection.                                             *)
(*                                                                         *)
(* Idealisations, stated once:                                             *)
(*  - sha256 is injective on the strings hashed (a symbolic digest);       *)
(*  - aes-256-cbc is a symbolic cipher: a ciphertext opens to its          *)
(*    plaintext under the key that made it; under another key final()     *)
(*    either throws (bad padding) or returns bytes that are no JSON text;  *)
(*  - crypto.randomUUID() never returns a value it returned before;        *)
(*  - crypto.randomBytes(16) is one of the values of IVs.                  *)
(***************************************************************************)
EXTENDS Integers, Sequences, FiniteSets, TLC

VARIABLES
    config,    \* the Conf store on disk: keysFilePath, encryptionPassword
    files,     \* the file system: path -> content (or NoFile)
    cache,     \* per instance: this.keysCache
    pwKey,     \* per instance: this.passwordKey
    insts,     \* the SSHKeyManager instances that exist
    nextId,    \* the number of ids crypto.randomUUID() has handed out
    clock,     \* the wall clock, as new Date().toISOString() reads it
    last       \* the last operation and what it reported (history)

vars == <<config, files, cache, pwKey, insts, nextId, clock, last>>

----------------------------------------------------------------------------
(* Bounds of the model *)

MaxKeys == 2
MaxId == 3
MaxClock == 1
MaxWords == 3

----------------------------------------------------------------------------
(* Values *)

Null == "<null>"
Undef == "<undefined>"

Procs == {1, 2}
Paths == {"data/ssh_keys.enc", "custom.enc", "export.json"}
DefaultPath == "data/ssh_keys.enc"
MachineId == "host"

Truthy(v) == v # Null /\ v # Undef /\ v # ""

\* String.prototype.trim; the blank is the white space of the model's strings
RECURSIVE Trim(_)
Trim(s) ==
    IF s = "" THEN s
    ELSE IF SubSeq(s, 1, 1) = " " THEN Trim(SubSeq(s, 2, Len(s)))
    ELSE IF SubSeq(s, Len(s), Len(s)) = " " THEN Trim(SubSeq(s, 1, Len(s) - 1))
    ELSE s

----------------------------------------------------------------------------
(* Key derivation *)

NoKey == [sha256 |-> <<>>]

\* crypto.createHash('sha256').update(s).digest(); s is kept as its parts
Sha256(s) == [sha256 |-> s]

getMachineKey == Sha256(<<MachineId, "ssh-kim-machine-key">>)

deriveKeyFromPassword(password) == Sha256(<<password, "ssh-kim-password-salt">>)

\* the constructor takes no password from the configuration
constructorPasswordKey_Never(cfg) == NoKey
\* the constructor's this.passwordKey
constructorPasswordKey(cfg) ==
    IF Truthy(cfg.encryptionPassword)
    THEN deriveKeyFromPassword(cfg.encryptionPassword)
    ELSE NoKey

\* return this.passwordKey || this.machineKey
getEncryptionKey(passwordKey) ==
    IF passwordKey # NoKey THEN passwordKey ELSE getMachineKey

getKeysFilePath(cfg) ==
    IF Truthy(cfg.keysFilePath) THEN cfg.keysFilePath ELSE DefaultPath

----------------------------------------------------------------------------
(* Texts, JSON and the envelope cipher *)

\* A text (the content of a string or of a file) is [kind, val]: the JSON
\* text of a value, an envelope, a plain string, or the bytes a decipher
\* under the wrong key lets through.
JSONstringify(v) == [kind |-> "json", val |-> v]
RawText(s) == [kind |-> "raw", val |-> <<s>>]
GarbageText == [kind |-> "garbage", val |-> <<>>]

\* JSON.parse: [threw, val]
JSONparse(text) ==
    IF text.kind = "json"
    THEN [threw |-> FALSE, val |-> text.val]
    ELSE [threw |-> TRUE, val |-> <<>>]

\* An envelope is the sequence of its ':'-separated fields; a field is the
\* hex digits of some bytes and the characters after them.  Buffer.from(s,
\* 'hex') decodes the leading hex digits and stops at the first character
\* that is not one.  EmptyIV is the empty buffer, what a field that does not
\* start with hex digits decodes to; ShortIV is 8 bytes; the members of IVs
\* are the 16-byte buffers, the only ones createDecipheriv takes.
EmptyIV == 0
IVs == {1, 2}
ShortIV == 3
HexThen(bytes, tail) == [hex |-> bytes, tail |-> tail]
Hex(bytes) == HexThen(bytes, "")
UnHex(field) == field.hex
EnvelopeText(parts) == [kind |-> "envelope", val |-> parts]

\* encryptedData.split(':')
split(text) == IF text.kind = "envelope" THEN text.val ELSE <<Hex(EmptyIV)>>

\* A string is read as UTF-8 by the cipher: an unpaired surrogate has no
\* UTF-8 form and goes in as U+FFFD, which is what comes back out.
LoneSurrogate == "\\uD800"
Replacement == "\\uFFFD"
toUtf8(text) ==
    IF text.kind = "raw" /\ text.val = <<LoneSurrogate>>
    THEN RawText(Replacement)
    ELSE text

\* cipher.update(data, 'utf8', 'hex') + cipher.final('hex') under (key, iv)
Cipher(key, iv, data) == [key |-> key, iv |-> iv, pt |-> toUtf8(data)]

\* the envelope carries an initialization vector that is not the cipher's
encryptData_StaleIV(data, key, iv) ==
    EnvelopeText(<<Hex(1), Hex(Cipher(key, iv, data))>>)
\* iv.toString('hex') + ':' + encrypted
encryptData(data, key, iv) == EnvelopeText(<<Hex(iv), Hex(Cipher(key, iv, data))>>)

\* the plaintext comes back under any key
decryptData_NoKeyCheck(encryptedData, key, wk) ==
    LET parts == split(encryptedData) IN
    IF UnHex(parts[1]) \notin IVs \/ Len(parts) < 2
    THEN [threw |-> TRUE, text |-> GarbageText]
    ELSE [threw |-> FALSE, text |-> UnHex(parts[2]).pt]
\* decryptData(encryptedData) under key; wk is what final() does under a key
\* that did not make the ciphertext: "throw" or "garbage".  [threw, text]
decryptData(encryptedData, key, wk) ==
    LET Throw == [threw |-> TRUE, text |-> GarbageText]
        parts == split(encryptedData)
    IN
    IF UnHex(parts[1]) \notin IVs THEN Throw        \* createDecipheriv: invalid IV
    ELSE IF Len(parts) < 2 THEN Throw               \* update(undefined)
    ELSE LET ct == UnHex(parts[2]) IN
         IF ct.key = key /\ ct.iv = UnHex(parts[1])
         THEN [threw |-> FALSE, text |-> ct.pt]
         ELSE IF wk = "throw" THEN Throw
         ELSE [threw |-> FALSE, text |-> GarbageText]

----------------------------------------------------------------------------
(* Files *)

NoFile == [exists |-> FALSE, text |-> RawText("")]
FileOf(text) == [exists |-> TRUE, text |-> text]
\* what a write that failed half-way leaves: an empty file
TruncatedFile == FileOf(RawText(""))

\* fs.writeFile(path, text): wr is "ok", "eacces" (nothing written) or
\* "enospc" (the file was opened, so truncated, and the write failed)
writeFile(file, text, wr) ==
    CASE wr = "ok" -> [threw |-> FALSE, file |-> FileOf(text)]
      [] wr = "eacces" -> [threw |-> TRUE, file |-> file]
      [] OTHER -> [threw |-> TRUE, file |-> TruncatedFile]

----------------------------------------------------------------------------
(* The cache and load / save *)

NoCache == [present |-> FALSE, keys |-> <<>>]
Cached(keys) == [present |-> TRUE, keys |-> keys]

\* loadKeys whose catch block logs the error and leaves this.keysCache null
loadKeys_CatchLeavesNull(c, file, key, rd, wk) ==
    IF c.present
    THEN [cache |-> c, keys |-> c.keys, how |-> "hit"]
    ELSE IF ~file.exists
    THEN [cache |-> Cached(<<>>), keys |-> <<>>, how |-> "absent"]
    ELSE LET dec == decryptData(file.text, key, wk)
             parsed == JSONparse(dec.text)
         IN  IF rd = "ok" /\ ~dec.threw /\ ~parsed.threw
             THEN [cache |-> Cached(parsed.val), keys |-> parsed.val, how |-> "read"]
             ELSE [cache |-> NoCache, keys |-> <<>>, how |-> "error"]

\* loadKeys: c is this.keysCache, file the file at getKeysFilePath(), rd the
\* outcome of fs.readFile ("ok" or "eio").  [cache, keys, how]: the cache
\* afterwards, the array returned (the cache itself), and the path taken.
loadKeys(c, file, key, rd, wk) ==
    IF c.present
    THEN [cache |-> c, keys |-> c.keys, how |-> "hit"]
    ELSE IF ~file.exists
    THEN [cache |-> Cached(<<>>), keys |-> <<>>, how |-> "absent"]
    ELSE LET dec == decryptData(file.text, key, wk)
             parsed == JSONparse(dec.text)
         IN  IF rd = "ok" /\ ~dec.threw /\ ~parsed.threw
             THEN [cache |-> Cached(parsed.val), keys |-> parsed.val, how |-> "read"]
             ELSE [cache |-> Cached(<<>>), keys |-> <<>>, how |-> "error"]

\* saveKeys that keeps the records the file holds and keys does not
saveKeys_Merge(c, keys, file, key, iv, wr) ==
    LET inFile == loadKeys(NoCache, file, key, "ok", "throw").keys
        kept == SelectSeq(inFile, LAMBDA r : \A k \in 1..Len(keys) : keys[k].id # r.id)
        w == writeFile(file, encryptData(JSONstringify(kept \o keys), key, iv), wr)
    IN  [threw |-> w.threw, file |-> w.file,
         cache |-> IF w.threw THEN c ELSE Cached(keys)]

\* saveKeys without its last line, this.keysCache = keys
saveKeys_NoCacheUpdate(c, keys, file, key, iv, wr) ==
    LET w == writeFile(file, encryptData(JSONstringify(keys), key, iv), wr)
    IN  [threw |-> w.threw, file |-> w.file, cache |-> c]

\* saveKeys(keys): c is this.keysCache before the call.  [threw, file, cache]
saveKeys(c, keys, file, key, iv, wr) ==
    LET data == JSONstringify(keys)
        encryptedData == encryptData(data, key, iv)
        w == writeFile(file, encryptedData, wr)
    IN  [threw |-> w.threw,
         file  |-> w.file,
         cache |-> IF w.threw THEN c ELSE Cached(keys)]

\* an id made from the time of the call
generateId_FromClock(n) == clock + 1

\* crypto.randomUUID(): the n-th id handed out
generateId(n) == n + 1

----------------------------------------------------------------------------
(* Key records *)

NoTime == 0 - 1

\* keyContent.includes(marker): marker occurs in s as a substring
includes(s, marker) ==
    \E i \in 1..(Len(s) - Len(marker) + 1) : SubSeq(s, i, i + Len(marker) - 1) = marker

\* detectKeyType asking for ssh-ed25519 first
detectKeyType_Ed25519First(keyContent) ==
    IF includes(keyContent, "ssh-ed25519") THEN "Ed25519"
    ELSE IF includes(keyContent, "ssh-rsa") THEN "RSA"
    ELSE IF includes(keyContent, "ssh-dss") THEN "DSA"
    ELSE IF includes(keyContent, "ecdsa-sha2") THEN "ECDSA"
    ELSE "Unknown"
detectKeyType(keyContent) ==
    IF includes(keyContent, "ssh-rsa") THEN "RSA"
    ELSE IF includes(keyContent, "ssh-dss") THEN "DSA"
    ELSE IF includes(keyContent, "ecdsa-sha2") THEN "ECDSA"
    ELSE IF includes(keyContent, "ssh-ed25519") THEN "Ed25519"
    ELSE "Unknown"

\* keys.findIndex(k => k.id === id), 1-based; 0 for -1
findIndex(keys, id) ==
    IF \E i \in 1..Len(keys) : keys[i].id = id
    THEN CHOOSE i \in 1..Len(keys) :
            /\ keys[i].id = id
            /\ \A j \in 1..(i - 1) : keys[j].id # id
    ELSE 0

\* keys.splice(i, 1)
splice(keys, i) == SubSeq(keys, 1, i - 1) \o SubSeq(keys, i + 1, Len(keys))

Ids(keys) == {keys[i].id : i \in 1..Len(keys)}

----------------------------------------------------------------------------
(* The handlers.  Each takes this.keysCache (c), the store file, the active  *)
(* key, its arguments, the clock, the number of ids handed out, and io: the  *)
(* outcomes of the environment, [rd, wk, wr, iv].  Each returns at least     *)
(* [res, cache, file, ids]: what it reported, this.keysCache and the file    *)
(* afterwards, and how many ids it drew.                                     *)
(*                                                                           *)
(* loadKeys returns this.keysCache itself, so push, splice and Object.assign *)
(* on the returned array change the cache at once: when saveKeys is called   *)
(* this.keysCache already is the array it is given.                          *)

\* addKey deriving key_type from the name
addKey_TypeOfName(c, file, key, opts, now, n, io) ==
    LET prompted == ~Truthy(opts.name) \/ ~Truthy(opts.content)
        name == IF prompted THEN opts.answers.name ELSE opts.name
        keyContent == IF prompted THEN opts.answers.content ELSE opts.content
    IN
    IF ~Truthy(keyContent) \/ ~Truthy(Trim(keyContent))
    THEN [res |-> "invalid", cache |-> c, file |-> file, ids |-> 0]
    ELSE LET newKey == [id |-> generateId(n), name |-> Trim(name), tag |-> Null,
                        key |-> Trim(keyContent), key_type |-> detectKeyType(name),
                        created |-> now, last_modified |-> now]
             ld == loadKeys(c, file, key, io.rd, io.wk)
             keys == Append(ld.keys, newKey)
             sv == saveKeys(Cached(keys), keys, file, key, io.iv, io.wr)
         IN  [res   |-> IF sv.threw THEN "error" ELSE "ok",
              cache |-> sv.cache,
              file  |-> sv.file,
              ids   |-> 1]
addKey(c, file, key, opts, now, n, io) ==
    LET prompted == ~Truthy(opts.name) \/ ~Truthy(opts.content)
        name == IF prompted THEN opts.answers.name ELSE opts.name
        tag == IF ~prompted THEN opts.tag
               ELSE IF Truthy(opts.answers.tag) THEN opts.answers.tag ELSE Null
        keyContent == IF prompted THEN opts.answers.content ELSE opts.content
    IN
    IF ~Truthy(keyContent) \/ ~Truthy(Trim(keyContent))
    THEN [res |-> "invalid", cache |-> c, file |-> file, ids |-> 0]
    ELSE LET newKey == [id            |-> generateId(n),
                        name          |-> Trim(name),
                        tag           |-> IF Truthy(tag) THEN Trim(tag) ELSE Null,
                        key           |-> Trim(keyContent),
                        key_type      |-> detectKeyType(keyContent),
                        created       |-> now,
                        last_modified |-> now]
             ld == loadKeys(c, file, key, io.rd, io.wk)
             keys == Append(ld.keys, newKey)
             sv == saveKeys(Cached(keys), keys, file, key, io.iv, io.wr)
         IN  [res   |-> IF sv.threw THEN "error" ELSE "ok",
              cache |-> sv.cache,
              file  |-> sv.file,
              ids   |-> 1]

\* the updates without the last_modified that Object.assign adds
edited_KeepsModified(old, opts, now) ==
    IF Truthy(opts.name) THEN [old EXCEPT !.name = opts.name] ELSE old
\* The updates of editKey, lines 485-528, applied to the record old.  With
\* no option given the prompts decide: opts.answers is what the user typed
\* (the defaults of the prompts are the record's own name and tag).
edited(old, opts, now) ==
    IF ~Truthy(opts.name) /\ ~Truthy(opts.tag) /\ ~Truthy(opts.content)
    THEN LET answers == opts.answers IN
         [old EXCEPT
            !.name = Trim(answers.name),
            !.tag  = IF Truthy(Trim(answers.tag)) THEN Trim(answers.tag) ELSE Null,
            !.key  = IF answers.updateContent THEN Trim(answers.content) ELSE @,
            !.last_modified = now]
    ELSE [old EXCEPT
            !.name = IF Truthy(opts.name) THEN opts.name ELSE @,
            !.tag  = IF opts.tag = Undef THEN @
                     ELSE IF Truthy(opts.tag) THEN opts.tag ELSE Null,
            !.key  = IF Truthy(opts.content) THEN opts.content ELSE @,
            !.last_modified = now]

\* editKey writing a whole new record in place of the old one
editKey_NewRecord(c, file, key, id, opts, now, io) ==
    LET ld == loadKeys(c, file, key, io.rd, io.wk)
        keyIndex == findIndex(ld.keys, id)
    IN  IF keyIndex = 0
        THEN [res |-> "notfound", cache |-> ld.cache, file |-> file, ids |-> 0]
        ELSE LET new == [edited(ld.keys[keyIndex], opts, now) EXCEPT !.created = now]
                 keys == Append(splice(ld.keys, keyIndex), new)
                 sv == saveKeys(Cached(keys), keys, file, key, io.iv, io.wr)
             IN  [res   |-> IF sv.threw THEN "error" ELSE "ok",
                  cache |-> sv.cache,
                  file  |-> sv.file,
                  ids   |-> 0]

\* editKey that classifies the record's material again
editKey_Redetect(c, file, key, id, opts, now, io) ==
    LET ld == loadKeys(c, file, key, io.rd, io.wk)
        keyIndex == findIndex(ld.keys, id)
    IN  IF keyIndex = 0
        THEN [res |-> "notfound", cache |-> ld.cache, file |-> file, ids |-> 0]
        ELSE LET upd == edited(ld.keys[keyIndex], opts, now)
                 new == [upd EXCEPT !.key_type = detectKeyType(upd.key)]
                 keys == [ld.keys EXCEPT ![keyIndex] = new]
                 sv == saveKeys(Cached(keys), keys, file, key, io.iv, io.wr)
             IN  [res   |-> IF sv.threw THEN "error" ELSE "ok",
                  cache |-> sv.cache,
                  file  |-> sv.file,
                  ids   |-> 0]

\* Object.assign(keys[keyIndex], updates, {last_modified})
editKey(c, file, key, id, opts, now, io) ==
    LET ld == loadKeys(c, file, key, io.rd, io.wk)
        keyIndex == findIndex(ld.keys, id)
    IN  IF keyIndex = 0
        THEN [res |-> "notfound", cache |-> ld.cache, file |-> file, ids |-> 0]
        ELSE LET new == edited(ld.keys[keyIndex], opts, now)
                 keys == [ld.keys EXCEPT ![keyIndex] = new]
                 sv == saveKeys(Cached(keys), keys, file, key, io.iv, io.wr)
             IN  [res   |-> IF sv.threw THEN "error" ELSE "ok",
                  cache |-> sv.cache,
                  file  |-> sv.file,
                  ids   |-> 0]

\* deleteKey without the keyIndex === -1 check: keys.splice(-1, 1) removes
\* the last record
deleteKey_NoGuard(c, file, key, id, confirmed, io) ==
    LET ld == loadKeys(c, file, key, io.rd, io.wk)
        keyIndex == findIndex(ld.keys, id)
    IN  IF ~confirmed
        THEN [res |-> "cancelled", cache |-> ld.cache, file |-> file, ids |-> 0]
        ELSE LET keys == IF keyIndex = 0
                         THEN SubSeq(ld.keys, 1, Len(ld.keys) - 1)
                         ELSE splice(ld.keys, keyIndex)
                 sv == saveKeys(Cached(keys), keys, file, key, io.iv, io.wr)
             IN  [res   |-> IF sv.threw THEN "error" ELSE "ok",
                  cache |-> sv.cache,
                  file  |-> sv.file,
                  ids   |-> 0]

\* confirmed: options.force, or the answer to the prompt
deleteKey(c, file, key, id, confirmed, io) ==
    LET ld == loadKeys(c, file, key, io.rd, io.wk)
        keyIndex == findIndex(ld.keys, id)
    IN  IF keyIndex = 0
        THEN [res |-> "notfound", cache |-> ld.cache, file |-> file, ids |-> 0]
        ELSE IF ~confirmed
        THEN [res |-> "cancelled", cache |-> ld.cache, file |-> file, ids |-> 0]
        ELSE LET keys == splice(ld.keys, keyIndex)
                 sv == saveKeys(Cached(keys), keys, file, key, io.iv, io.wr)
             IN  [res   |-> IF sv.threw THEN "error" ELSE "ok",
                  cache |-> sv.cache,
                  file  |-> sv.file,
                  ids   |-> 0]

----------------------------------------------------------------------------
(* exportKeys *)

\* options.id when --id is not given (falsy)
NoId == 0

\* exportData: {exported_at, total_keys, keys}, in the shape JSON.parse gives
\* back to importFromFile (data.keys)
ExportDoc(now, keysToExport) ==
    [hasKeys |-> TRUE, keys |-> keysToExport,
     rec |-> [isNull |-> TRUE, name |-> Undef, tag |-> Undef, key |-> Undef,
              key_type |-> Undef, created |-> 0 - 1],
     exported_at |-> now, total_keys |-> Len(keysToExport)]

\* exportKeys that writes its document whether or not the id was found
exportKeys_NoFind(c, file, key, options, out, now, io) ==
    LET ld == loadKeys(c, file, key, io.rd, io.wk)
        keyIndex == findIndex(ld.keys, options.id)
        keysToExport == IF options.id # NoId /\ keyIndex # 0
                        THEN <<ld.keys[keyIndex]>> ELSE ld.keys
        wf == writeFile(out, JSONstringify(ExportDoc(now, keysToExport)), io.wr)
    IN  [res   |-> IF wf.threw THEN "error" ELSE "ok",
         cache |-> ld.cache,
         out   |-> wf.file]

\* exportKeys(options); options.file is the output path, given or typed at
\* the prompt; out is the file at that path.  [res, cache, out]
exportKeys(c, file, key, options, out, now, io) ==
    LET ld == loadKeys(c, file, key, io.rd, io.wk)
        keyIndex == findIndex(ld.keys, options.id)
    IN  IF Len(ld.keys) = 0
        THEN [res |-> "nokeys", cache |-> ld.cache, out |-> out]
        ELSE IF options.id # NoId /\ keyIndex = 0
        THEN [res |-> "notfound", cache |-> ld.cache, out |-> out]
        ELSE LET keysToExport == IF options.id # NoId
                                 THEN <<ld.keys[keyIndex]>> ELSE ld.keys
                 data == JSONstringify(ExportDoc(now, keysToExport))
                 tempKey == deriveKeyFromPassword(options.password)
                 text == IF Truthy(options.password)
                         THEN EnvelopeText(<<Hex(io.iv), Hex(Cipher(tempKey, io.iv, data))>>)
                         ELSE data
                 wf == writeFile(out, text, io.wr)
             IN  [res   |-> IF wf.threw THEN "error" ELSE "ok",
                  cache |-> ld.cache,
                  out   |-> wf.file]

----------------------------------------------------------------------------
(* importFromFile *)

\* An import candidate (an element of data.keys, or data itself): JSON null,
\* or an object whose fields may be missing (Undef, NoTime).
NullCand == [isNull |-> TRUE, name |-> Undef, tag |-> Undef, key |-> Undef,
             key_type |-> Undef, created |-> NoTime]
Cand(name, tag, key, key_type, created) ==
    [isNull |-> FALSE, name |-> name, tag |-> tag, key |-> key,
     key_type |-> key_type, created |-> created]

\* The JSON value of an import document: {keys: [...]} or one bare record.
KeysDoc(keys) == [hasKeys |-> TRUE, keys |-> keys, rec |-> NullCand]
BareDoc(rec) == [hasKeys |-> FALSE, keys |-> <<>>, rec |-> rec]

\* An element of data.keys as importFromFile reads it: of a stored record
\* (an export document holds those) it reads name, tag, key, key_type and
\* created, and neither id nor last_modified.
keyDataOf(v) ==
    IF "isNull" \in DOMAIN v THEN v
    ELSE Cand(v.name, v.tag, v.key, v.key_type, v.created)

\* readImport that takes the first element of data.keys only
readImport_FirstOnly(src, password, wk) ==
    LET Throw == [threw |-> TRUE, keys |-> <<>>] IN
    IF ~src.exists THEN Throw
    ELSE LET content == IF Truthy(password)
                        THEN decryptData(src.text, deriveKeyFromPassword(password), wk)
                        ELSE [threw |-> FALSE, text |-> src.text]
             parsed == JSONparse(content.text)
         IN  IF content.threw \/ parsed.threw THEN Throw
             ELSE [threw |-> FALSE,
                   keys  |-> IF parsed.val.hasKeys
                             THEN [k \in 1..(IF Len(parsed.val.keys) > 0 THEN 1 ELSE 0) |->
                                      keyDataOf(parsed.val.keys[k])]
                             ELSE <<parsed.val.rec>>]

\* lines 773-790: read the import file, decrypt it under the one-off
\* password if one is given, parse it.  [threw, keys]
readImport(src, password, wk) ==
    LET Throw == [threw |-> TRUE, keys |-> <<>>] IN
    IF ~src.exists THEN Throw
    ELSE LET content == IF Truthy(password)
                        THEN decryptData(src.text, deriveKeyFromPassword(password), wk)
                        ELSE [threw |-> FALSE, text |-> src.text]
             parsed == JSONparse(content.text)
         IN  IF content.threw \/ parsed.threw THEN Throw
             ELSE [threw |-> FALSE,
                   keys  |-> IF parsed.val.hasKeys
                             THEN [k \in 1..Len(parsed.val.keys) |->
                                      keyDataOf(parsed.val.keys[k])]
                             ELSE <<parsed.val.rec>>]

\* isDuplicate reading the wrong properties of the stored record
isDuplicate_WrongField(existingKeys, keyData) ==
    \E i \in 1..Len(existingKeys) :
        \/ existingKeys[i].key_type = keyData.key
        \/ existingKeys[i].tag = keyData.name

\* isDuplicate comparing the key text only
isDuplicate_KeyOnly(existingKeys, keyData) ==
    \E i \in 1..Len(existingKeys) : existingKeys[i].key = keyData.key

\* existingKeys.some(existing => existing.key === keyData.key ||
\*                               existing.name === keyData.name)
isDuplicate(existingKeys, keyData) ==
    \E i \in 1..Len(existingKeys) :
        \/ existingKeys[i].key = keyData.key
        \/ existingKeys[i].name = keyData.name

\* The loop over the candidates, lines 796-817.  acc is
\* [keys, imported, dups, ids, threw, skipped]: existingKeys so far, the two
\* counters, the ids drawn, whether a candidate threw (the loop ends there),
\* and for each candidate handled whether it was skipped as a duplicate.
RECURSIVE importLoop(_, _, _, _)
importLoop(acc, cands, now, n) ==
    IF cands = <<>> \/ acc.threw THEN acc
    ELSE LET keyData == Head(cands) IN
         IF keyData.isNull
         THEN [acc EXCEPT !.threw = TRUE]              \* keyData.key of null
         ELSE IF isDuplicate(acc.keys, keyData)
         THEN importLoop([acc EXCEPT !.dups = @ + 1,
                                     !.skipped = Append(@, TRUE)],
                         Tail(cands), now, n)
         ELSE IF ~Truthy(keyData.key_type) /\ keyData.key \in {Undef, Null}
         THEN [acc EXCEPT !.ids = @ + 1, !.threw = TRUE]   \* detectKeyType(undefined)
         ELSE LET newKey ==
                    [id            |-> generateId(n + acc.ids),
                     name          |-> keyData.name,
                     tag           |-> IF Truthy(keyData.tag) THEN keyData.tag ELSE Null,
                     key           |-> keyData.key,
                     key_type      |-> IF Truthy(keyData.key_type) THEN keyData.key_type
                                       ELSE detectKeyType(keyData.key),
                     created       |-> IF keyData.created # NoTime THEN keyData.created
                                       ELSE now,
                     last_modified |-> now]
              IN  importLoop([acc EXCEPT !.keys = Append(@, newKey),
                                         !.imported = @ + 1,
                                         !.ids = @ + 1,
                                         !.skipped = Append(@, FALSE)],
                             Tail(cands), now, n)

\* importFromFile stamping the records with a fixed time, not new Date()
importFromFile_FixedTime(c, file, key, src, password, now, n, io) ==
    LET rdi == readImport(src, password, io.wk) IN
    IF rdi.threw
    THEN [res |-> "error", cache |-> c, file |-> file, ids |-> 0,
          imported |-> 0, dups |-> 0, skipped |-> <<>>, saves |-> 0]
    ELSE LET ld == loadKeys(c, file, key, io.rd, io.wk)
             lp == importLoop([keys |-> ld.keys, imported |-> 0, dups |-> 0,
                               ids |-> 0, threw |-> FALSE, skipped |-> <<>>],
                              rdi.keys, 0, n)
             sv == saveKeys(Cached(lp.keys), lp.keys, file, key, io.iv, io.wr)
         IN  IF lp.threw
             THEN [res |-> "error", cache |-> Cached(lp.keys), file |-> file,
                   ids |-> lp.ids, imported |-> lp.imported, dups |-> lp.dups,
                   skipped |-> lp.skipped, saves |-> 0]
             ELSE [res |-> IF sv.threw THEN "error" ELSE "ok",
                   cache |-> sv.cache, file |-> sv.file,
                   ids |-> lp.ids, imported |-> lp.imported, dups |-> lp.dups,
                   skipped |-> lp.skipped, saves |-> 1]

\* [res, cache, file, ids, imported, dups, skipped]
importFromFile(c, file, key, src, password, now, n, io) ==
    LET rdi == readImport(src, password, io.wk) IN
    IF rdi.threw
    THEN [res |-> "error", cache |-> c, file |-> file, ids |-> 0,
          imported |-> 0, dups |-> 0, skipped |-> <<>>, saves |-> 0]
    ELSE LET ld == loadKeys(c, file, key, io.rd, io.wk)
             lp == importLoop([keys |-> ld.keys, imported |-> 0, dups |-> 0,
                               ids |-> 0, threw |-> FALSE, skipped |-> <<>>],
                              rdi.keys, now, n)
         IN  IF lp.threw
             THEN [res |-> "error", cache |-> Cached(lp.keys), file |-> file,
                   ids |-> lp.ids, imported |-> lp.imported, dups |-> lp.dups,
                   skipped |-> lp.skipped, saves |-> 0]
             ELSE LET sv == saveKeys(Cached(lp.keys), lp.keys, file, key, io.iv, io.wr)
                  IN  [res |-> IF sv.threw THEN "error" ELSE "ok",
                       cache |-> sv.cache, file |-> sv.file,
                       ids |-> lp.ids, imported |-> lp.imported, dups |-> lp.dups,
                       skipped |-> lp.skipped, saves |-> 1]

----------------------------------------------------------------------------
(* Import from a directory and from the scan of the common locations *)

\* A directory is [exists, entries]; an entry is [name, readable, content]:
\* the file's name, whether fs.readFile succeeds on it, and its text.
NoDir == [exists |-> FALSE, entries |-> <<>>]
DirOf(entries) == [exists |-> TRUE, entries |-> entries]

\* file.endsWith(suffix)
endsWith(file, suffix) ==
    /\ Len(file) >= Len(suffix)
    /\ SubSeq(file, Len(file) - Len(suffix) + 1, Len(file)) = suffix

\* files.filter(file => file.endsWith('.pub'))
pubFiles(entries) == SelectSeq(entries, LAMBDA e : endsWith(e.name, ".pub"))

\* the for loop of importFromDirectory over pubFiles: a file that cannot be
\* read is skipped before an id is drawn.  [keys, imported, ids]
RECURSIVE directoryLoop(_, _, _, _)
directoryLoop(acc, pubs, now, n) ==
    IF pubs = <<>> THEN acc
    ELSE LET file == Head(pubs) IN
         IF ~file.readable
         THEN directoryLoop(acc, Tail(pubs), now, n)
         ELSE LET newKey ==
                    [id            |-> generateId(n + acc.ids),
                     name          |-> file.name,
                     tag           |-> Null,
                     key           |-> Trim(file.content),
                     key_type      |-> detectKeyType(file.content),
                     created       |-> now,
                     last_modified |-> now]
              IN  directoryLoop([acc EXCEPT !.keys = Append(@, newKey),
                                            !.imported = @ + 1,
                                            !.ids = @ + 1],
                                Tail(pubs), now, n)

\* importFromDirectory that skips a file whose name or text a record has
importFromDirectory_SkipDuplicates(c, file, key, dir, now, n, io) ==
    IF ~dir.exists
    THEN [res |-> "error", cache |-> c, file |-> file, ids |-> 0, imported |-> 0]
    ELSE IF pubFiles(dir.entries) = <<>>
    THEN [res |-> "nopub", cache |-> c, file |-> file, ids |-> 0, imported |-> 0]
    ELSE LET ld == loadKeys(c, file, key, io.rd, io.wk)
             new == SelectSeq(pubFiles(dir.entries), LAMBDA e :
                       \A k \in 1..Len(ld.keys) :
                           ld.keys[k].name # e.name /\ ld.keys[k].key # Trim(e.content))
             lp == directoryLoop([keys |-> ld.keys, imported |-> 0, ids |-> 0],
                                 new, now, n)
             sv == saveKeys(Cached(lp.keys), lp.keys, file, key, io.iv, io.wr)
         IN  [res |-> IF sv.threw THEN "error" ELSE "ok",
              cache |-> sv.cache, file |-> sv.file,
              ids |-> lp.ids, imported |-> lp.imported]

\* importFromDirectory(dirPath), under the try of importKeys: readdir of a
\* missing directory and a failed save end in its catch.
\* [res, cache, file, ids, imported]
importFromDirectory(c, file, key, dir, now, n, io) ==
    IF ~dir.exists
    THEN [res |-> "error", cache |-> c, file |-> file, ids |-> 0, imported |-> 0]
    ELSE IF pubFiles(dir.entries) = <<>>
    THEN [res |-> "nopub", cache |-> c, file |-> file, ids |-> 0, imported |-> 0]
    ELSE LET ld == loadKeys(c, file, key, io.rd, io.wk)
             lp == directoryLoop([keys |-> ld.keys, imported |-> 0, ids |-> 0],
                                 pubFiles(dir.entries), now, n)
             sv == saveKeys(Cached(lp.keys), lp.keys, file, key, io.iv, io.wr)
         IN  [res |-> IF sv.threw THEN "error" ELSE "ok",
              cache |-> sv.cache, file |-> sv.file,
              ids |-> lp.ids, imported |-> lp.imported]

\* scanCommonLocations over the entries of the common locations: the .pub
\* files that can be read, as {name, content, type}
scanCommonLocations(entries) ==
    LET found == SelectSeq(pubFiles(entries), LAMBDA e : e.readable) IN
    [k \in 1..Len(found) |->
        [name    |-> found[k].name,
         content |-> Trim(found[k].content),
         type    |-> detectKeyType(found[k].content)]]

\* the for loop of importFromScan over the selected keys
RECURSIVE scanLoop(_, _, _, _)
scanLoop(acc, selected, now, n) ==
    IF selected = <<>> THEN acc
    ELSE LET selectedKey == Head(selected)
             newKey ==
                 [id            |-> generateId(n + acc.ids),
                  name          |-> selectedKey.name,
                  tag           |-> Null,
                  key           |-> selectedKey.content,
                  key_type      |-> selectedKey.type,
                  created       |-> now,
                  last_modified |-> now]
         IN  scanLoop([acc EXCEPT !.keys = Append(@, newKey),
                                  !.imported = @ + 1,
                                  !.ids = @ + 1],
                      Tail(selected), now, n)

\* importFromScan(): picked is the set of positions of the scanned keys the
\* checkbox prompt returns.  [res, cache, file, ids, imported]
importFromScan(c, file, key, entries, picked, now, n, io) ==
    LET scannedKeys == scanCommonLocations(entries)
        selected == SelectSeq(scannedKeys,
                              LAMBDA s : \E k \in picked :
                                  k <= Len(scannedKeys) /\ scannedKeys[k] = s)
    IN  IF scannedKeys = <<>>
        THEN [res |-> "nofound", cache |-> c, file |-> file, ids |-> 0, imported |-> 0]
        ELSE IF selected = <<>>
        THEN [res |-> "noselection", cache |-> c, file |-> file, ids |-> 0,
              imported |-> 0]
        ELSE LET ld == loadKeys(c, file, key, io.rd, io.wk)
                 lp == scanLoop([keys |-> ld.keys, imported |-> 0, ids |-> 0],
                                selected, now, n)
                 sv == saveKeys(Cached(lp.keys), lp.keys, file, key, io.iv, io.wr)
             IN  [res |-> IF sv.threw THEN "error" ELSE "ok",
                  cache |-> sv.cache, file |-> sv.file,
                  ids |-> lp.ids, imported |-> lp.imported]

----------------------------------------------------------------------------
(* Inputs of the operations *)

\* the outcomes of the environment: fs.readFile, final() under a wrong key,
\* fs.writeFile, crypto.randomBytes(16)
IOs == [rd : {"ok", "eio"}, wk : {"throw", "garbage"},
        wr : {"ok", "eacces", "enospc"}, iv : IVs]
\* for an operation that only reads / only writes / does both
LoadIOs == {io \in IOs : io.wr = "ok" /\ io.iv = 1}
SaveIOs == {io \in IOs : io.rd = "ok" /\ io.wk = "throw" /\ io.iv = 1}
HandlerIOs == SaveIOs
\* with both initialization vectors
CryptoIOs == {io \in IOs : io.rd = "ok" /\ io.wr = "ok"}

Passwords == {"secret"}

\* the plaintexts of Test 3: its own, the empty string, a string with an
\* unpaired surrogate, and a string that is itself an envelope
Plaintexts ==
    {RawText("test-ssh-key-content"), RawText(""), RawText(LoneSurrogate),
     encryptData(RawText("x"), getMachineKey, 1)}

CandA == Cand("a", Undef, "ssh-rsa A", Undef, NoTime)
CandA2 == Cand("a", "t", "ssh-ed25519 B", "Ed25519", 0)
CandB == Cand("b", "t", "ssh-rsa A", "RSA", 0)
CandC == Cand("c", Null, "ssh-ed25519 B", Undef, NoTime)
\* no key and no key_type: detectKeyType(undefined) throws
CandNoKey == Cand("d", Undef, Undef, Undef, NoTime)
\* a key_type that is not the type of the key
CandStale == Cand("m", Undef, "ssh-rsa A", "DSA", 0)
\* no name
CandNoName == Cand(Undef, Undef, "ssh-ed25519 B", Undef, NoTime)

DocFile(doc) == FileOf(JSONstringify(doc))

----------------------------------------------------------------------------
(* The state machine *)

Init ==
    /\ config = [keysFilePath |-> Null, encryptionPassword |-> Null]
    /\ files = [f \in Paths |-> NoFile]
    /\ cache = [p \in Procs |-> NoCache]
    /\ pwKey = [p \in Procs |-> NoKey]
    /\ insts = {1}
    /\ nextId = 0
    /\ clock = 0
    /\ last = [op |-> "init", p |-> 1, res |-> "ok"]

StorePath == getKeysFilePath(config)
StoreFile == files[StorePath]
ActiveKey(p) == getEncryptionKey(pwKey[p])

\* a handler that also rewrites the records of a plain export document
Apply_LiveExport(p, r) ==
    LET doc == files["export.json"]
        live == IF doc.exists /\ doc.text.kind = "json"
                THEN FileOf(JSONstringify([doc.text.val EXCEPT !.keys = r.cache.keys]))
                ELSE doc
    IN  /\ cache' = [cache EXCEPT ![p] = r.cache]
        /\ files' = [[files EXCEPT !["export.json"] = live] EXCEPT ![StorePath] = r.file]
        /\ nextId' = nextId + r.ids
        /\ UNCHANGED <<config, pwKey, insts, clock>>
\* what a handler leaves behind
Apply(p, r) ==
    /\ cache' = [cache EXCEPT ![p] = r.cache]
    /\ files' = [files EXCEPT ![StorePath] = r.file]
    /\ nextId' = nextId + r.ids
    /\ UNCHANGED <<config, pwKey, insts, clock>>

\* new SSHKeyManager(): every CLI command starts with one
Construct(p) ==
    /\ cache' = [cache EXCEPT ![p] = NoCache]
    /\ pwKey' = [pwKey EXCEPT ![p] = constructorPasswordKey(config)]
    /\ last' = [op |-> "construct", p |-> p, res |-> "ok"]
    /\ UNCHANGED <<config, files, insts, nextId, clock>>

LoadKeys(p, io) ==
    LET ld == loadKeys(cache[p], StoreFile, ActiveKey(p), io.rd, io.wk) IN
    /\ Apply(p, [cache |-> ld.cache, file |-> StoreFile, ids |-> 0])
    /\ last' = [op |-> "load", p |-> p, res |-> ld.how]

\* Test 6: saveKeys of a collection the caller built with generateId()
SaveKeys(p, keys, io) ==
    LET sv == saveKeys(cache[p], keys, StoreFile, ActiveKey(p), io.iv, io.wr) IN
    /\ nextId + Len(keys) <= MaxId
    /\ Apply(p, [cache |-> sv.cache, file |-> sv.file, ids |-> Len(keys)])
    /\ last' = [op |-> "save", p |-> p, res |-> IF sv.threw THEN "error" ELSE "ok"]

AddKey(p, opts, io) ==
    LET r == addKey(cache[p], StoreFile, ActiveKey(p), opts, clock, nextId, io) IN
    /\ nextId + r.ids <= MaxId
    /\ Len(r.cache.keys) <= MaxKeys
    /\ Apply(p, r)
    /\ last' = [op |-> "add", p |-> p, res |-> r.res]

EditKey(p, id, opts, io) ==
    LET r == editKey(cache[p], StoreFile, ActiveKey(p), id, opts, clock, io) IN
    /\ Apply(p, r)
    /\ last' = [op |-> "edit", p |-> p, res |-> r.res]

DeleteKey(p, id, confirmed, io) ==
    LET r == deleteKey(cache[p], StoreFile, ActiveKey(p), id, confirmed, io) IN
    /\ Apply(p, r)
    /\ last' = [op |-> "delete", p |-> p, res |-> r.res, id |-> id,
                again |-> last.op = "delete" /\ last.res = "ok" /\ last.id = id]

ImportFromFile(p, src, io) ==
    LET r == importFromFile(cache[p], StoreFile, ActiveKey(p), src, Null,
                            clock, nextId, io) IN
    /\ nextId + r.ids <= MaxId
    /\ Len(r.cache.keys) <= MaxKeys
    /\ Apply(p, r)
    /\ last' = [op |-> "import", p |-> p, res |-> r.res, src |-> src,
                imported |-> r.imported, dups |-> r.dups,
                again |-> last.op = "import" /\ last.res = "ok" /\ last.src = src
                          /\ last.imported = Len(readImport(src, Null, io.wk).keys)]

ExportKeys(p, options, io) ==
    LET r == exportKeys(cache[p], StoreFile, ActiveKey(p), options,
                        files[options.file], clock, io) IN
    /\ cache' = [cache EXCEPT ![p] = r.cache]
    /\ files' = [files EXCEPT ![options.file] = r.out]
    /\ last' = [op |-> "export", p |-> p, res |-> r.res,
                id |-> options.id, path |-> options.file]
    /\ UNCHANGED <<config, pwKey, insts, nextId, clock>>

\* importKeys({file, password}) of the file at a path of the file system
ImportKeysFile(p, path, password, io) ==
    LET r == importFromFile(cache[p], StoreFile, ActiveKey(p), files[path], password,
                            clock, nextId, io) IN
    /\ nextId + r.ids <= MaxId + MaxKeys
    /\ Len(r.cache.keys) <= MaxKeys
    /\ Apply(p, r)
    /\ last' = [op |-> "importFile", p |-> p, res |-> r.res, path |-> path,
                password |-> password, imported |-> r.imported]

\* importKeys({directory}): dirs names the directories of the file system
ImportFromDirectory(p, dirs, d, io) ==
    LET r == importFromDirectory(cache[p], StoreFile, ActiveKey(p), dirs[d],
                                 clock, nextId, io) IN
    /\ nextId + r.ids <= MaxId
    /\ Len(r.cache.keys) <= MaxKeys
    /\ Apply(p, [cache |-> r.cache, file |-> r.file, ids |-> r.ids])
    /\ last' = [op |-> "importDir", p |-> p, res |-> r.res, dir |-> d,
                imported |-> r.imported,
                again |-> last.op = "importDir" /\ last.res = "ok" /\ last.dir = d]

\* importKeys() with 'Scan common locations' chosen: d is the common
\* location that exists, picked the answer of the checkbox prompt
ImportFromScan(p, dirs, d, picked, io) ==
    LET r == importFromScan(cache[p], StoreFile, ActiveKey(p), dirs[d].entries,
                            picked, clock, nextId, io) IN
    /\ nextId + r.ids <= MaxId
    /\ Len(r.cache.keys) <= MaxKeys
    /\ Apply(p, [cache |-> r.cache, file |-> r.file, ids |-> r.ids])
    /\ last' = [op |-> "importScan", p |-> p, res |-> r.res, dir |-> d,
                imported |-> r.imported, again |-> FALSE]

\* Test 3: encryptData then decryptData under the active key
RoundTrip(p, m, io) ==
    LET encrypted == encryptData(m, ActiveKey(p), io.iv)
        dec == decryptData(encrypted, ActiveKey(p), io.wk)
    IN  /\ last' = [op |-> "roundtrip", p |-> p,
                    res |-> IF dec.threw THEN "error" ELSE "ok",
                    msg |-> m, encrypted |-> encrypted, decrypted |-> dec.text]
        /\ UNCHANGED <<config, files, cache, pwKey, insts, nextId, clock>>

\* manager.decryptData(encrypted), as Test 3 calls it, on any envelope
DecryptData ==
    /\ last.op = "envelope"
    /\ LET dec == decryptData(last.encrypted, ActiveKey(1), last.wk) IN
       last' = [op |-> "decryptData", p |-> 1,
                res |-> IF dec.threw THEN "error" ELSE "ok",
                encrypted |-> last.encrypted, wk |-> last.wk, decrypted |-> dec.text]
    /\ UNCHANGED <<config, files, cache, pwKey, insts, nextId, clock>>

\* manager.detectKeyType(text), as Test 4 calls it
DetectKeyType ==
    /\ last.op = "text"
    /\ last' = [op |-> "detectKeyType", p |-> 1, words |-> last.words, text |-> last.text,
                res |-> detectKeyType(last.text)]
    /\ UNCHANGED <<config, files, cache, pwKey, insts, nextId, clock>>

\* time passes between two readings of new Date()
Tick ==
    /\ clock < MaxClock
    /\ clock' = clock + 1
    /\ last' = [op |-> "tick", p |-> 1, res |-> "ok"]
    /\ UNCHANGED <<config, files, cache, pwKey, insts, nextId>>

\* manageConfig({path}), ({reset}), ({setPassword}), ({clearPassword})
SetPath(p, path) ==
    /\ config' = [config EXCEPT !.keysFilePath = path]
    /\ last' = [op |-> "setPath", p |-> p, res |-> "ok"]
    /\ UNCHANGED <<files, cache, pwKey, insts, nextId, clock>>

Reset(p) ==
    /\ config' = [keysFilePath |-> Null, encryptionPassword |-> Null]
    /\ pwKey' = [pwKey EXCEPT ![p] = NoKey]
    /\ last' = [op |-> "reset", p |-> p, res |-> "ok"]
    /\ UNCHANGED <<files, cache, insts, nextId, clock>>

SetPassword(p, password) ==
    /\ config' = [config EXCEPT !.encryptionPassword = password]
    /\ pwKey' = [pwKey EXCEPT ![p] = deriveKeyFromPassword(password)]
    /\ last' = [op |-> "setPassword", p |-> p, res |-> "ok"]
    /\ UNCHANGED <<files, cache, insts, nextId, clock>>

ClearPassword(p) ==
    /\ config' = [config EXCEPT !.encryptionPassword = Null]
    /\ pwKey' = [pwKey EXCEPT ![p] = NoKey]
    /\ last' = [op |-> "clearPassword", p |-> p, res |-> "ok"]
    /\ UNCHANGED <<files, cache, insts, nextId, clock>>

\* the collections Test 6 saves: records of fresh ids
TestKey(id, name) ==
    [id |-> id, name |-> name, tag |-> "test", key |-> "ssh-rsa A",
     key_type |-> "RSA", created |-> clock, last_modified |-> clock]
TestKeys(n) ==
    {<<>>,
     <<TestKey(generateId(n), "Test Key 1")>>,
     <<TestKey(generateId(n), "Test Key 1"), TestKey(generateId(n + 1), "Test Key 2")>>}

----------------------------------------------------------------------------
(* The store lifecycle in one instance: load, save, add, edit, delete and  *)
(* import, with reads and writes that may fail.                            *)

CoreAddOpts == [name : {"a", "b"}, tag : {Undef}, content : {"ssh-rsa A", " "}]
CoreEditOpts == {[name |-> "b", tag |-> Undef, content |-> "ssh-ed25519 B"]}
CoreSources ==
    {NoFile,
     FileOf(RawText("ssh-rsa A")),
     DocFile(KeysDoc(<<>>)),
     DocFile(BareDoc(CandA)),
     DocFile(BareDoc(CandC)),
     DocFile(KeysDoc(<<CandA, CandB>>)),
     DocFile(KeysDoc(<<CandA2, CandC>>)),
     DocFile(KeysDoc(<<CandA, NullCand>>)),
     DocFile(KeysDoc(<<CandC, CandNoKey>>))}

Next ==
    \/ \E p \in insts : Construct(p)
    \/ \E p \in insts : \E io \in LoadIOs : LoadKeys(p, io)
    \/ \E p \in insts : \E io \in SaveIOs : \E keys \in TestKeys(nextId) : SaveKeys(p, keys, io)
    \/ \E p \in insts : \E io \in HandlerIOs : \E opts \in CoreAddOpts : AddKey(p, opts, io)

Spec == Init /\ [][Next]_vars

----------------------------------------------------------------------------
(* Add, edit and delete in one instance, with writes that may fail.        *)

NextEdit ==
    \/ \E p \in insts : Construct(p)
    \/ \E p \in insts : \E io \in LoadIOs : LoadKeys(p, io)
    \/ \E p \in insts : \E io \in HandlerIOs : \E opts \in CoreAddOpts : AddKey(p, opts, io)
    \/ \E p \in insts : \E io \in HandlerIOs : \E id \in 1..MaxId : \E opts \in CoreEditOpts :
          EditKey(p, id, opts, io)
    \/ \E p \in insts : \E io \in HandlerIOs : \E id \in 1..MaxId : \E cf \in BOOLEAN :
          DeleteKey(p, id, cf, io)

SpecEdit == Init /\ [][NextEdit]_vars

----------------------------------------------------------------------------
(* Add and import from a file in one instance.                             *)

NextImport ==
    \/ \E p \in insts : Construct(p)
    \/ \E p \in insts : \E io \in HandlerIOs : \E opts \in CoreAddOpts : AddKey(p, opts, io)
    \/ \E p \in insts : \E io \in HandlerIOs : \E src \in CoreSources : ImportFromFile(p, src, io)

SpecImport == Init /\ [][NextImport]_vars

----------------------------------------------------------------------------
(* The cipher and the active key in one instance: Test 3's round trip, and *)
(* the store file across changes of the password.                          *)

CryptoAddOpts == [name : {"a"}, tag : {Undef}, content : {"ssh-rsa A"}]

NextCrypto ==
    \/ \E p \in insts : Construct(p)
    \/ \E p \in insts : \E io \in LoadIOs : LoadKeys(p, io)
    \/ \E p \in insts : \E io \in CryptoIOs : \E opts \in CryptoAddOpts : AddKey(p, opts, io)
    \/ \E p \in insts : \E io \in CryptoIOs : \E m \in Plaintexts : RoundTrip(p, m, io)
    \/ \E p \in insts : \E pw \in Passwords : SetPassword(p, pw)
    \/ \E p \in insts : ClearPassword(p)

SpecCrypto == Init /\ [][NextCrypto]_vars

----------------------------------------------------------------------------
(* The configuration in one instance: path, password and reset, with the   *)
(* round trip and add as the operations that use the active key.           *)

ConfigPasswords == {"secret", "hunter2"}
ConfigPaths == {"custom.enc"}
ConfigIOs == {io \in CryptoIOs : io.wk = "throw" /\ io.iv = 1}
ConfigPlaintexts == {RawText("test-ssh-key-content")}

NextConfig ==
    \/ \E p \in insts : Construct(p)
    \/ \E p \in insts : \E io \in LoadIOs : LoadKeys(p, io)
    \/ \E p \in insts : \E io \in ConfigIOs : \E opts \in CryptoAddOpts : AddKey(p, opts, io)
    \/ \E p \in insts : \E io \in ConfigIOs : \E m \in ConfigPlaintexts : RoundTrip(p, m, io)
    \/ \E p \in insts : \E path \in ConfigPaths : SetPath(p, path)
    \/ \E p \in insts : Reset(p)
    \/ \E p \in insts : \E pw \in ConfigPasswords : SetPassword(p, pw)
    \/ \E p \in insts : ClearPassword(p)

SpecConfig == Init /\ [][NextConfig]_vars

----------------------------------------------------------------------------
(* Edits of single fields, by options and by the prompts, as time passes.  *)

FieldAddOpts == [name : {"a"}, tag : {Undef}, content : {"ssh-rsa A"}]
FieldIOs == {io \in HandlerIOs : io.wr = "ok"}
FieldEditOpts ==
    {[name |-> "b", tag |-> Undef, content |-> Undef],
     [name |-> Undef, tag |-> "t", content |-> "ssh-ed25519 B"],
     [name |-> Undef, tag |-> "", content |-> Undef,
      answers |-> [name |-> " a ", tag |-> " ", updateContent |-> FALSE, content |-> ""]]}

\* the records are added first, the edits follow as time passes
NextFields ==
    \/ \E p \in insts : \E io \in FieldIOs : \E opts \in FieldAddOpts :
          clock = 0 /\ AddKey(p, opts, io)
    \/ \E p \in insts : \E io \in FieldIOs : \E id \in 1..MaxId : \E opts \in FieldEditOpts :
          EditKey(p, id, opts, io)
    \/ Tick

SpecFields == Init /\ [][NextFields]_vars

----------------------------------------------------------------------------
(* Add and delete across instances, with saves of a delete that may fail.  *)

NextDelete ==
    \/ \E p \in insts : Construct(p)
    \/ \E p \in insts : \E io \in LoadIOs : LoadKeys(p, io)
    \/ \E p \in insts : \E io \in FieldIOs : \E opts \in FieldAddOpts : AddKey(p, opts, io)
    \/ \E p \in insts : \E io \in HandlerIOs : \E id \in 1..MaxId : \E cf \in BOOLEAN :
          DeleteKey(p, id, cf, io)

SpecDelete == Init /\ [][NextDelete]_vars

----------------------------------------------------------------------------
(* Export of all records or of one, plain or under a one-off password, to  *)
(* a file of its own or onto the store file, between adds, edits and       *)
(* deletes.                                                                *)

ExportPaths == {"export.json", DefaultPath}
ExportOpts ==
    [id : {NoId} \cup 1..MaxId, file : {"export.json"}, password : {Undef}]
    \cup [id : {NoId}, file : ExportPaths, password : {Undef}]
    \cup [id : {NoId}, file : {"export.json"}, password : {"pw"}]
ExportEditOpts == {[name |-> "b", tag |-> Undef, content |-> Undef]}

NextExport ==
    \/ \E p \in insts : Construct(p)
    \/ \E p \in insts : \E io \in FieldIOs : \E opts \in FieldAddOpts : AddKey(p, opts, io)
    \/ \E p \in insts : \E io \in FieldIOs : \E id \in 1..MaxId : \E opts \in ExportEditOpts :
          EditKey(p, id, opts, io)
    \/ \E p \in insts : \E io \in FieldIOs : \E id \in 1..MaxId : DeleteKey(p, id, TRUE, io)
    \/ \E p \in insts : \E io \in FieldIOs : \E options \in ExportOpts :
          ExportKeys(p, options, io)

SpecExport == Init /\ [][NextExport]_vars

----------------------------------------------------------------------------
(* Names: add by options and by the prompts, edit by options and by the    *)
(* prompts, and import of records with and without a name.                 *)

\* the name prompt of add accepts an answer only if its trim() is not empty
NameAddOpts ==
    {[name |-> "a", tag |-> Undef, content |-> "ssh-rsa A"],
     [name |-> " ", tag |-> Undef, content |-> "ssh-rsa A"],
     [name |-> "", tag |-> Undef, content |-> "ssh-rsa A",
      answers |-> [name |-> " a ", tag |-> "", content |-> "ssh-rsa A"]],
     [name |-> "a", tag |-> Undef, content |-> "",
      answers |-> [name |-> "a", tag |-> "", content |-> " "]]}
NameEditOpts ==
    {[name |-> " ", tag |-> Undef, content |-> Undef],
     [name |-> Undef, tag |-> Undef, content |-> Undef,
      answers |-> [name |-> " ", tag |-> "", updateContent |-> FALSE, content |-> ""]]}
NameSources == {DocFile(BareDoc(CandA)), DocFile(BareDoc(CandNoName))}

NextNames ==
    \/ \E p \in insts : Construct(p)
    \/ \E p \in insts : \E io \in FieldIOs : \E opts \in NameAddOpts : AddKey(p, opts, io)
    \/ \E p \in insts : \E io \in FieldIOs : \E id \in 1..MaxId : \E opts \in NameEditOpts :
          EditKey(p, id, opts, io)
    \/ \E p \in insts : \E io \in FieldIOs : \E src \in NameSources : ImportFromFile(p, src, io)

SpecNames == Init /\ [][NextNames]_vars

----------------------------------------------------------------------------
(* detectKeyType on key texts: every text of up to MaxWords words of the   *)
(* vocabulary, joined by blanks.                                           *)

Words ==
    {"ssh-rsa", "ssh-dss", "ecdsa-sha2-nistp256", "sk-ssh-ed25519@openssh.com",
     "SSH-RSA", "garbage"}

RECURSIVE JoinWords(_)
JoinWords(ws) ==
    IF ws = <<>> THEN ""
    ELSE IF Len(ws) = 1 THEN ws[1]
    ELSE ws[1] \o " " \o JoinWords(Tail(ws))

KeyTexts == UNION {[1..n -> Words] : n \in 0..MaxWords}

InitTexts ==
    /\ config = [keysFilePath |-> Null, encryptionPassword |-> Null]
    /\ files = [f \in Paths |-> NoFile]
    /\ cache = [p \in Procs |-> NoCache]
    /\ pwKey = [p \in Procs |-> NoKey]
    /\ insts = {1}
    /\ nextId = 0
    /\ clock = 0
    /\ \E ws \in KeyTexts : last = [op |-> "text", p |-> 1, words |-> ws, text |-> JoinWords(ws)]

NextTexts == DetectKeyType

SpecTexts == InitTexts /\ [][NextTexts]_vars

----------------------------------------------------------------------------
(* Key types: add of key texts of several types, import of records with    *)
(* and without a key_type of their own, as time passes.                    *)

TypeAddOpts ==
    [name : {"a"}, tag : {Undef},
     content : {" ssh-rsa A ", "ssh-ed25519 B", "ecdsa-sha2-nistp256 D", "garbage"}]
TypeSources ==
    {DocFile(BareDoc(CandC)), DocFile(BareDoc(CandStale)),
     DocFile(KeysDoc(<<CandA2, CandB>>))}

NextTypes ==
    \/ \E p \in insts : Construct(p)
    \/ \E p \in insts : \E io \in FieldIOs : \E opts \in TypeAddOpts : AddKey(p, opts, io)
    \/ \E p \in insts : \E io \in FieldIOs : \E src \in TypeSources : ImportFromFile(p, src, io)
    \/ Tick

SpecTypes == Init /\ [][NextTypes]_vars

----------------------------------------------------------------------------
(* decryptData on the envelope strings: one, two or three fields, the      *)
(* first a hex initialization vector, hex of the wrong length, hex digits  *)
(* followed by other characters, or no hex at all.                         *)

FirstFields ==
    {Hex(1), Hex(2), Hex(ShortIV), Hex(EmptyIV), HexThen(1, "zz"), HexThen(EmptyIV, "zz")}

Ciphertexts ==
    {Hex(Cipher(k, iv, RawText(m))) :
        k \in {getMachineKey, deriveKeyFromPassword("secret")}, iv \in IVs, m \in {"Hello"}}

Envelopes ==
    {EnvelopeText(parts) :
        parts \in UNION {{<<f>> : f \in FirstFields},
                         FirstFields \X Ciphertexts,
                         FirstFields \X Ciphertexts \X Ciphertexts}}

InitEnvelopes ==
    /\ config = [keysFilePath |-> Null, encryptionPassword |-> Null]
    /\ files = [f \in Paths |-> NoFile]
    /\ cache = [p \in Procs |-> NoCache]
    /\ pwKey = [p \in Procs |-> NoKey]
    /\ insts = {1}
    /\ nextId = 0
    /\ clock = 0
    /\ \E e \in Envelopes : \E wk \in {"throw", "garbage"} :
          last = [op |-> "envelope", p |-> 1, encrypted |-> e, wk |-> wk]

NextEnvelopes == DecryptData

SpecEnvelopes == InitEnvelopes /\ [][NextEnvelopes]_vars

----------------------------------------------------------------------------
(* Imports from directories and from the scan, after adds of records with  *)
(* the names and texts of the files.                                       *)

FileRsa == [name |-> "id_rsa.pub", readable |-> TRUE, content |-> "ssh-rsa A "]
FileEd == [name |-> "id_ed25519.pub", readable |-> TRUE, content |-> "ssh-ed25519 B"]
FilePrivate == [name |-> "id_rsa", readable |-> TRUE, content |-> "PRIVATE"]
FileLocked == [name |-> "old.pub", readable |-> FALSE, content |-> ""]

Dirs ==
    [d \in {"ssh", "keys", "docs", "locked", "missing"} |->
        CASE d = "ssh" -> DirOf(<<FileRsa, FilePrivate, FileLocked>>)
          [] d = "keys" -> DirOf(<<FileRsa, FileEd>>)
          [] d = "docs" -> DirOf(<<FilePrivate>>)
          [] d = "locked" -> DirOf(<<FileLocked>>)
          [] OTHER -> NoDir]

DirAddOpts ==
    [name : {"id_rsa.pub", "x"}, tag : {Undef}, content : {"ssh-rsa A"}]

Picks == SUBSET (1..2)

NextDirs ==
    \/ \E p \in insts : Construct(p)
    \/ \E p \in insts : \E io \in HandlerIOs : \E opts \in DirAddOpts : AddKey(p, opts, io)
    \/ \E p \in insts : \E io \in HandlerIOs : \E d \in DOMAIN Dirs :
          ImportFromDirectory(p, Dirs, d, io)
    \/ \E p \in insts : \E io \in HandlerIOs : \E d \in DOMAIN Dirs : \E picked \in Picks :
          Dirs[d].exists /\ ImportFromScan(p, Dirs, d, picked, io)

SpecDirs == Init /\ [][NextDirs]_vars

----------------------------------------------------------------------------
(* Export and import again: records are added as time passes and exported *)
(* whole, plain or under a one-off password; the store is pointed at       *)
(* another, empty file and the document is imported there.                 *)

RoundAddOpts ==
    [name : {"a", "b"}, tag : {Undef}, content : {"ssh-rsa A"}]
    \cup [name : {"b"}, tag : {" ", "t"}, content : {"ssh-ed25519 B"}]
RoundExportOpts == [id : {NoId}, file : {"export.json"}, password : {Undef, "pw"}]
RoundPasswords == {Null, "pw"}

NextRound ==
    \/ \E p \in insts : Construct(p)
    \/ \E p \in insts : \E io \in FieldIOs : \E opts \in RoundAddOpts :
          config.keysFilePath = Null /\ AddKey(p, opts, io)
    \/ \E p \in insts : \E io \in FieldIOs : \E options \in RoundExportOpts :
          config.keysFilePath = Null /\ ExportKeys(p, options, io)
    \/ \E p \in insts : \E path \in ConfigPaths : config.keysFilePath = Null /\ SetPath(p, path)
    \/ \E p \in insts : \E io \in FieldIOs : \E pw \in RoundPasswords :
          config.keysFilePath # Null /\ ImportKeysFile(p, "export.json", pw, io)
    \/ Tick

SpecRound == Init /\ [][NextRound]_vars

----------------------------------------------------------------------------
(* Two instances (two processes) on one store file: each loads and adds    *)
(* in any interleaving.  Nothing orders their steps but the scheduler.     *)

InitTwo ==
    /\ config = [keysFilePath |-> Null, encryptionPassword |-> Null]
    /\ files = [f \in Paths |-> NoFile]
    /\ cache = [p \in Procs |-> NoCache]
    /\ pwKey = [p \in Procs |-> NoKey]
    /\ insts = Procs
    /\ nextId = 0
    /\ clock = 0
    /\ last = [op |-> "init", p |-> 1, res |-> "ok"]

NextTwo ==
    \/ \E p \in insts : Construct(p)
    \/ \E p \in insts : \E io \in FieldIOs : LoadKeys(p, io)
    \/ \E p \in insts : \E io \in FieldIOs : \E opts \in FieldAddOpts : AddKey(p, opts, io)

SpecTwo == InitTwo /\ [][NextTwo]_vars

----------------------------------------------------------------------------
(* Claims *)

\* what loadKeys would return in the current state of instance p when the
\* environment does not fail
Loaded(p) == loadKeys(cache[p], StoreFile, ActiveKey(p), "ok", "throw").keys

\* C1: within one instance, a successful saveKeys(c) followed by loadKeys()
\* returns exactly c, from the cache and without reading the file, whatever
\* the cache held before.
C1_SaveThenLoad ==
    [][\A keys \in TestKeys(nextId) : \A io \in SaveIOs :
          (SaveKeys(1, keys, io) /\ io.wr = "ok") =>
              \A rd \in {"ok", "eio"} : \A wk \in {"throw", "garbage"} :
                  LET ld == loadKeys(cache'[1], files'[StorePath],
                                     getEncryptionKey(pwKey'[1]), rd, wk)
                  IN  ld.keys = keys /\ ld.how = "hit"]_vars

\* a collection of two records was saved
C1_Witness ==
    /\ last.op = "save" /\ last.res = "ok"
    /\ Len(cache[1].keys) = 2
    /\ StoreFile.exists

\* C2: when the file write of a mutating operation (add, edit, delete,
\* import) fails, the cache afterwards holds the same collection as before
\* the operation.
C2_CacheUnchangedOnFailedWrite ==
    [][\A io \in HandlerIOs :
          (/\ io.wr # "ok"
           /\ \/ \E opts \in CoreAddOpts : AddKey(1, opts, io)
              \/ \E id \in 1..MaxId : \E opts \in CoreEditOpts : EditKey(1, id, opts, io)
              \/ \E id \in 1..MaxId : DeleteKey(1, id, TRUE, io)
              \/ \E src \in CoreSources : ImportFromFile(1, src, io)
           /\ last'.res = "error")
          => cache'[1].keys = Loaded(1)]_vars

\* the read, the decryption or the parse of the store file fails
LoadFails(p, io) ==
    \/ io.rd # "ok"
    \/ LET dec == decryptData(StoreFile.text, ActiveKey(p), io.wk)
       IN  dec.threw \/ JSONparse(dec.text).threw

NotFoundReported ==
    \A io \in HandlerIOs : \A id \in (1..MaxId) \ Ids(Loaded(1)) :
        LET untouched(r) == /\ r.res = "notfound"
                            /\ r.cache = Cached(Loaded(1))
                            /\ r.file = StoreFile
                            /\ r.ids = 0
        IN  /\ \A opts \in CoreEditOpts :
                  untouched(editKey(cache[1], StoreFile, ActiveKey(1), id, opts, clock, io))
            /\ \A cf \in BOOLEAN :
                  untouched(deleteKey(cache[1], StoreFile, ActiveKey(1), id, cf, io))

\* what a not-found edit or delete leaves: the loaded collection, the files
\* and the id counter as they were
NotFoundUntouched(before) ==
    /\ cache'[1] = Cached(before)
    /\ files' = files
    /\ nextId' = nextId

\* C4: editKey or deleteKey with an id that no record of the loaded
\* collection has reports not-found, saves nothing, and leaves the
\* collection (every record, in order) and the store file unchanged.
C4_NotFoundUntouched ==
    /\ []NotFoundReported
    /\ [][(last'.op \in {"edit", "delete"} /\ last'.res = "notfound") =>
              NotFoundUntouched(Loaded(1))]_vars

\* a not-found edit or delete on a store that holds records
C4_Witness ==
    /\ last.op \in {"edit", "delete"} /\ last.res = "notfound"
    /\ Len(cache[1].keys) > 0
    /\ StoreFile.exists

\* the number of candidates among the first n that were not skipped
RECURSIVE Accepted(_, _)
Accepted(skipped, n) ==
    IF n = 0 THEN 0
    ELSE Accepted(skipped, n - 1) + (IF skipped[n] THEN 0 ELSE 1)

\* keyData matches a record of keys in material or in name
Matches(keys, keyData) ==
    \E k \in 1..Len(keys) : keys[k].key = keyData.key \/ keys[k].name = keyData.name

\* C5: importFromFile skips a candidate as a duplicate if and only if some
\* record already in the collection, the records appended earlier in the
\* same batch included, has equal material or equal name; otherwise the
\* candidate is appended.  (For every import whose file was read and parsed,
\* and every candidate its loop handles: the loop ends at a candidate that
\* throws.)
C5_DuplicateRule ==
    [][\A src \in CoreSources : \A io \in HandlerIOs :
          (/\ last'.op = "import" /\ last'.src = src
           /\ ImportFromFile(1, src, io)
           /\ ~readImport(src, Null, io.wk).threw) =>
              LET r == importFromFile(cache[1], StoreFile, ActiveKey(1), src, Null,
                                      clock, nextId, io)
                  cands == readImport(src, Null, io.wk).keys
                  before == Loaded(1)
                  after == cache'[1].keys
              IN  /\ Len(after) = Len(before) + Accepted(r.skipped, Len(r.skipped))
                  /\ SubSeq(after, 1, Len(before)) = before
                  /\ \A i \in 1..Len(r.skipped) :
                        LET pos == Len(before) + Accepted(r.skipped, i - 1)
                            sofar == SubSeq(after, 1, pos)
                        IN  /\ r.skipped[i] <=> Matches(sofar, cands[i])
                            /\ ~r.skipped[i] =>
                                  /\ after[pos + 1].key = cands[i].key
                                  /\ after[pos + 1].name = cands[i].name]_vars

\* a batch of two candidates whose second matched the first in material
\* only and was skipped
C5_Witness ==
    /\ last.op = "import" /\ last.res = "ok"
    /\ last.src = DocFile(KeysDoc(<<CandA, CandB>>))
    /\ last.imported = 1 /\ last.dups = 1
    /\ Len(cache[1].keys) = 1

\* the import files that hold exactly one record
OneRecordSources == {DocFile(BareDoc(CandA)), DocFile(BareDoc(CandC))}

\* the first of two imports of src in succession has just imported its record
FirstPassDone(src) ==
    /\ last.op = "import" /\ last.res = "ok" /\ last.src = src
    /\ last.imported = 1 /\ last.dups = 0

\* C6 as stated: importing the same record twice in succession yields
\* importedCount = 1 and duplicateCount = 1 on the second pass, and the
\* collection holds exactly one record for it afterwards.
C6_SecondPassCountsAsStated ==
    [][\A src \in OneRecordSources : \A io \in HandlerIOs :
          (FirstPassDone(src) /\ ImportFromFile(1, src, io) /\ last'.res = "ok") =>
              /\ last'.imported = 1
              /\ last'.dups = 1]_vars

\* C6, amended: the first pass reports importedCount = 1 and no duplicate,
\* the second pass importedCount = 0 and duplicateCount = 1; the collection
\* is unchanged by the second pass and holds exactly one record that
\* matches the imported one in name or material.
C6_SecondPassIsDuplicate ==
    [][\A src \in OneRecordSources : \A io \in HandlerIOs :
          (FirstPassDone(src) /\ ImportFromFile(1, src, io) /\ last'.res = "ok") =>
              LET cand == readImport(src, Null, io.wk).keys[1]
                  after == cache'[1].keys
              IN  /\ last'.imported = 0
                  /\ last'.dups = 1
                  /\ after = cache[1].keys
                  /\ Cardinality({k \in 1..Len(after) :
                         after[k].key = cand.key \/ after[k].name = cand.name}) = 1]_vars

\* the second of two successful imports of the same one-record file
C6_Witness ==
    /\ last.op = "import" /\ last.res = "ok" /\ last.again
    /\ last.src \in OneRecordSources
    /\ last.imported = 0 /\ last.dups = 1

\* C7: an import that fails before its save (unreadable or unparsable file,
\* bad candidate) leaves none of the batch's records in the cache or in the
\* file: what loadKeys returns afterwards is what it returned before, and
\* the files are as they were.
C7_FailedImportInvisible ==
    [][\A src \in CoreSources : \A io \in HandlerIOs :
          (/\ last'.op = "import" /\ last'.src = src
           /\ ImportFromFile(1, src, io)
           /\ importFromFile(cache[1], StoreFile, ActiveKey(1), src, Null,
                             clock, nextId, io).saves = 0)
          => /\ Loaded(1)' = Loaded(1)
             /\ files' = files]_vars

Distinct(keys) ==
    \A i, j \in 1..Len(keys) : i # j => keys[i].id # keys[j].id

\* the collection the store file holds, as the active key of p opens it
Stored(p) ==
    loadKeys(NoCache, StoreFile, ActiveKey(p), "ok", "throw").keys

\* C8: after any sequence of adds and imports the ids in the collection, in
\* the cache and in the store file, are pairwise distinct, and each is an
\* id that generateId has handed out.
C8_IdsDistinct ==
    /\ Distinct(cache[1].keys)
    /\ Distinct(Stored(1))
    /\ Ids(cache[1].keys) \cup Ids(Stored(1)) \subseteq 1..nextId

\* two records, one added and one imported
C8_Witness ==
    /\ last.op = "import" /\ last.res = "ok" /\ last.imported = 1
    /\ Len(cache[1].keys) = 2
    /\ Len(Stored(1)) = 2
    /\ cache[1].keys[1].name = "a" /\ cache[1].keys[1].tag = Null

WrongKey(p) ==
    /\ StoreFile.exists
    /\ StoreFile.text.kind = "envelope"
    /\ UnHex(split(StoreFile.text)[2]).key # ActiveKey(p)

\* the collection that was saved in the store file
Saved == JSONparse(UnHex(split(StoreFile.text)[2]).pt).val

\* C10 as stated: loading a store file whose envelope was made under
\* another key than the active one never yields a collection that differs
\* from the one that was saved (loadKeys has no raising outcome).
C10_WrongKeyNeverYieldsCollection ==
    [][\A io \in LoadIOs :
          (WrongKey(1) /\ ~cache[1].present /\ LoadKeys(1, io)) =>
              cache'[1].keys = Saved]_vars

\* C10, amended: under a key that did not make the envelope, decryptData
\* throws or returns text that JSON.parse rejects, never the saved text;
\* loadKeys swallows that error and yields the empty collection, leaving
\* the store file as it was.
C10_WrongKeyYieldsEmpty ==
    [][\A io \in LoadIOs :
          (WrongKey(1) /\ ~cache[1].present /\ LoadKeys(1, io)) =>
              LET dec == decryptData(StoreFile.text, ActiveKey(1), io.wk) IN
              /\ dec.threw \/ JSONparse(dec.text).threw
              /\ dec.text # UnHex(split(StoreFile.text)[2]).pt
              /\ last'.res = "error"
              /\ cache'[1] = Cached(<<>>)
              /\ files' = files]_vars

\* a load under a password key of a non-empty collection that was saved
\* under the machine key
C10_Witness ==
    /\ last.op = "load" /\ last.res = "error"
    /\ WrongKey(1)
    /\ pwKey[1] # NoKey
    /\ UnHex(split(StoreFile.text)[2]).key = getMachineKey
    /\ Len(Saved) > 0
    /\ cache[1] = Cached(<<>>)

\* the key the policy names for a configuration: the key of the configured
\* password, the machine key when none is configured
PolicyKey(cfg) ==
    IF Truthy(cfg.encryptionPassword)
    THEN deriveKeyFromPassword(cfg.encryptionPassword)
    ELSE getMachineKey

\* the key that made the envelope
EnvelopeKey(text) == UnHex(split(text)[2]).key

\* C11: after construction and after any sequence of set-password,
\* clear-password, reset and set-path in one instance, the active key is
\* the key of the configured password, or the machine key when none is
\* configured; and the envelope of the next encryption (round trip, save of
\* an add) is made under that key.
C11_ActiveKeyPolicy ==
    /\ ActiveKey(1) = PolicyKey(config)
    /\ last.op = "roundtrip" => EnvelopeKey(last.encrypted) = PolicyKey(config)
    /\ (last.op = "add" /\ last.res = "ok") =>
           EnvelopeKey(StoreFile.text) = PolicyKey(config)

\* an encryption under the second password, with a store file on disk that
\* was made under another key
C11_Witness ==
    /\ last.op = "roundtrip"
    /\ config.encryptionPassword = "hunter2"
    /\ EnvelopeKey(last.encrypted) = deriveKeyFromPassword("hunter2")
    /\ StoreFile.exists
    /\ EnvelopeKey(StoreFile.text) # ActiveKey(1)

\* the fields of a record that an edit with these options supplies
Supplied(opts) ==
    IF ~Truthy(opts.name) /\ ~Truthy(opts.tag) /\ ~Truthy(opts.content)
    THEN {"name", "tag"} \cup (IF opts.answers.updateContent THEN {"key"} ELSE {})
    ELSE (IF Truthy(opts.name) THEN {"name"} ELSE {})
         \cup (IF opts.tag # Undef THEN {"tag"} ELSE {})
         \cup (IF Truthy(opts.content) THEN {"key"} ELSE {})

\* C12: an edit of an existing record changes, of that record, only the
\* supplied name, tag and material and last_modified, which becomes the
\* time of the edit; id, created and key_type stay, every other record and
\* the order stay, and a save is made: the store file then holds the edited
\* collection, or the edit reports the error of the write.
C12_EditFrame ==
    [][\A io \in FieldIOs : \A id \in 1..MaxId : \A opts \in FieldEditOpts :
          (/\ last'.op = "edit"
           /\ id \in Ids(Loaded(1))
           /\ EditKey(1, id, opts, io)) =>
              LET before == Loaded(1)
                  after == cache'[1].keys
                  i == findIndex(before, id)
              IN  /\ Len(after) = Len(before)
                  /\ \A k \in 1..Len(before) : k # i => after[k] = before[k]
                  /\ \A f \in {"id", "created", "key_type", "name", "tag", "key"} :
                        f \notin Supplied(opts) => after[i][f] = before[i][f]
                  /\ Truthy(opts.name) => after[i].name = opts.name
                  /\ Truthy(opts.content) => after[i].key = opts.content
                  /\ after[i].last_modified = clock
                  /\ last'.res \in {"ok", "error"}
                  /\ last'.res = "ok" <=> io.wr = "ok"
                  /\ io.wr = "ok" => Stored(1)' = after]_vars

\* the second of two records was edited, later than it was made, and saved
C12_Witness ==
    /\ last.op = "edit" /\ last.res = "ok"
    /\ Len(cache[1].keys) = 2
    /\ cache[1].keys[1].last_modified = cache[1].keys[1].created
    /\ cache[1].keys[2].last_modified > cache[1].keys[2].created
    /\ cache[1].keys[2].key = "ssh-ed25519 B"
    /\ cache[1].keys[2].key_type = "RSA"
    /\ Stored(1) = cache[1].keys

\* C13: a confirmed delete of an existing record whose save succeeds
\* removes exactly that record, the others keeping their order, and the
\* store file holds the result; an id that was handed out and is neither in
\* the collection nor in the store file is in no later collection and in no
\* later store file, whatever operation follows; and a delete of an id that
\* is not in the collection reports not-found.
C13_DeleteScenario ==
    [][/\ LET absent == (1..nextId) \ (Ids(Loaded(1)) \cup Ids(Stored(1)))
           IN  absent = {} \/ absent \cap (Ids(Loaded(1))' \cup Ids(Stored(1))') = {}
       /\ last'.op = "delete" =>
             LET id == last'.id
                 before == Loaded(1)
                 after == cache'[1].keys
                 i == findIndex(before, id)
             IN  \A io \in HandlerIOs :
                   /\ (id \in Ids(before) /\ io.wr = "ok" /\ DeleteKey(1, id, TRUE, io)) =>
                          /\ last'.res = "ok"
                          /\ after = SubSeq(before, 1, i - 1)
                                         \o SubSeq(before, i + 1, Len(before))
                          /\ Stored(1)' = after
                          /\ id \notin Ids(Loaded(1))'
                   /\ (/\ id <= nextId /\ id \notin Ids(before)
                        /\ \E cf \in BOOLEAN : DeleteKey(1, id, cf, io)) =>
                          last'.res = "notfound"]_vars

\* the record just deleted from a store of two was deleted again, in a new
\* instance, and not found; the other record is still stored
C13_Witness ==
    /\ last.op = "delete" /\ last.res = "notfound" /\ last.again
    /\ last.id = 1
    /\ Ids(cache[1].keys) = {2}
    /\ Ids(Stored(1)) = {2}

\* the file holds an export document, plain or under the export password
IsExportDoc(f) ==
    /\ f.exists
    /\ \/ f.text.kind = "json"
       \/ /\ f.text.kind = "envelope"
          /\ EnvelopeKey(f.text) = deriveKeyFromPassword("pw")

\* the document an export file holds
DocOf(f) ==
    IF f.text.kind = "json" THEN f.text.val ELSE UnHex(split(f.text)[2]).pt.val

Requested(keys, options) ==
    IF options.id = NoId THEN keys ELSE <<keys[findIndex(keys, options.id)]>>

\* C15 as stated: an export that asks for an id the collection does not hold
\* reports not-found and writes no document; every other export writes a
\* document with exactly the requested records in collection order and
\* their number as total_keys; and no export changes the collection or the
\* store file.
C15_ExportSubset ==
    [][last'.op = "export" =>
              LET options == [id |-> last'.id, file |-> last'.path]
                  before == Loaded(1)
                  absent == options.id # NoId /\ options.id \notin Ids(before)
              IN  /\ absent => (last'.res = "notfound" /\ files' = files)
                  /\ ~absent =>
                        /\ last'.res = "ok"
                        /\ DocOf(files'[options.file]).keys = Requested(before, options)
                        /\ DocOf(files'[options.file]).total_keys
                               = Len(DocOf(files'[options.file]).keys)
                  /\ cache'[1].keys = before
                  /\ files'[StorePath] = files[StorePath]]_vars

\* C15, amended: an export from an empty collection writes no document and
\* reports that there are no keys, whatever was asked for; from a non-empty
\* collection, asking for an id it does not hold reports not-found and
\* writes no document, and every other export writes a document with
\* exactly the requested records in collection order and their number as
\* total_keys.  No export changes the collection, and none changes the
\* store file unless the output path is the store's file path, which then
\* holds the document.
C15_ExportSubsetNonEmpty ==
    [][last'.op = "export" =>
              LET options == [id |-> last'.id, file |-> last'.path]
                  before == Loaded(1)
                  absent == options.id # NoId /\ options.id \notin Ids(before)
              IN  /\ Len(before) = 0 => (last'.res = "nokeys" /\ files' = files)
                  /\ (Len(before) > 0 /\ absent) =>
                        (last'.res = "notfound" /\ files' = files)
                  /\ (Len(before) > 0 /\ ~absent) =>
                        /\ last'.res = "ok"
                        /\ IsExportDoc(files'[options.file])
                        /\ DocOf(files'[options.file]).keys = Requested(before, options)
                        /\ DocOf(files'[options.file]).total_keys
                               = Len(DocOf(files'[options.file]).keys)
                        /\ \A path \in Paths \ {options.file} : files'[path] = files[path]
                  /\ cache'[1].keys = before
                  /\ options.file # StorePath => files'[StorePath] = files[StorePath]]_vars

\* the second record of a store of two was exported alone
C15_Witness ==
    /\ last.op = "export" /\ last.res = "ok" /\ last.id = 2
    /\ Len(cache[1].keys) = 2
    /\ DocOf(files["export.json"]).keys = <<cache[1].keys[2]>>
    /\ DocOf(files["export.json"]).total_keys = 1
    /\ Stored(1) = cache[1].keys

\* C16: every record of the collection, in the cache and in the store file,
\* has a name, and the name is not empty.
C16_NamesNonEmpty ==
    /\ \A k \in 1..Len(cache[1].keys) : Truthy(cache[1].keys[k].name)
    /\ \A k \in 1..Len(Stored(1)) : Truthy(Stored(1)[k].name)

\* the marker a word of the vocabulary carries, if any
MarkerOf(w) ==
    CASE w = "ssh-rsa" -> "ssh-rsa"
      [] w = "ssh-dss" -> "ssh-dss"
      [] w = "ecdsa-sha2-nistp256" -> "ecdsa-sha2"
      [] w = "sk-ssh-ed25519@openssh.com" -> "ssh-ed25519"
      [] OTHER -> "none"

\* the markers that occur in a text, given as its words
MarkersIn(ws) == {MarkerOf(ws[i]) : i \in 1..Len(ws)}

\* C17: detectKeyType gives every text exactly one of the five types: RSA if
\* the text contains ssh-rsa, else DSA if it contains ssh-dss, else ECDSA if
\* it contains ecdsa-sha2, else Ed25519 if it contains ssh-ed25519, else
\* Unknown, wherever in the text the markers stand.
C17_Classify ==
    last.op = "detectKeyType" =>
        LET ms == MarkersIn(last.words) IN
        /\ last.res \in {"RSA", "DSA", "ECDSA", "Ed25519", "Unknown"}
        /\ last.res = "RSA" <=> "ssh-rsa" \in ms
        /\ last.res = "DSA" <=> ("ssh-dss" \in ms /\ "ssh-rsa" \notin ms)
        /\ last.res = "ECDSA" <=>
              ("ecdsa-sha2" \in ms /\ ms \cap {"ssh-rsa", "ssh-dss"} = {})
        /\ last.res = "Ed25519" <=>
              ("ssh-ed25519" \in ms /\ ms \cap {"ssh-rsa", "ssh-dss", "ecdsa-sha2"} = {})
        /\ last.res = "Unknown" <=> ms \subseteq {"none"}

\* a text that names ssh-ed25519 before ssh-rsa is RSA
C17_Witness ==
    /\ last.op = "detectKeyType"
    /\ last.text = "sk-ssh-ed25519@openssh.com garbage ssh-rsa"
    /\ last.res = "RSA"

\* the records a step appended to the collection
Appended == SubSeq(cache'[1].keys, Len(Loaded(1)) + 1, Len(cache'[1].keys))

\* C18 as stated: every record appended by add or by import has the
\* key_type that detectKeyType gives for the material stored in it, and a
\* record made by add has created equal to last_modified.
C18_TypeOfMaterial ==
    [][(last'.op \in {"add", "import"} /\ last'.res = "ok") =>
          \A k \in 1..Len(Appended) :
              /\ Appended[k].key_type = detectKeyType(Appended[k].key)
              /\ last'.op = "add" => Appended[k].created = Appended[k].last_modified]_vars

\* C18, amended: a record appended by add has the key_type that
\* detectKeyType gives for the material stored in it, and created equal to
\* last_modified, the time of the add; a record appended by importFromFile
\* has the key_type its candidate carries, and the one detectKeyType gives
\* for its material only when the candidate carries none.
C18_TypeOfMaterialOrCandidate ==
    [][(last'.op \in {"add", "import"} /\ last'.res = "ok") =>
          \A k \in 1..Len(Appended) :
              LET rec == Appended[k] IN
              /\ last'.op = "add" =>
                    /\ Len(Appended) = 1
                    /\ rec.key_type = detectKeyType(rec.key)
                    /\ rec.created = clock /\ rec.last_modified = clock
              /\ last'.op = "import" =>
                    \E cand \in {readImport(last'.src, Null, "throw").keys[i] :
                                    i \in 1..Len(readImport(last'.src, Null, "throw").keys)} :
                        /\ cand.key = rec.key /\ cand.name = rec.name
                        /\ rec.key_type = IF Truthy(cand.key_type) THEN cand.key_type
                                           ELSE detectKeyType(rec.key)]_vars

\* a store with an added record whose text was trimmed, made later than
\* the store, and an imported record that had no key_type of its own
C18_Witness ==
    /\ last.op = "import" /\ last.res = "ok"
    /\ Len(cache[1].keys) = 2
    /\ cache[1].keys[1].key = "ssh-rsa A" /\ cache[1].keys[1].key_type = "RSA"
    /\ cache[1].keys[1].created = 1 /\ cache[1].keys[1].last_modified = 1
    /\ cache[1].keys[2].name = "c" /\ cache[1].keys[2].key_type = "Ed25519"

\* C19: a save writes the saving instance's own view and nothing else: after
\* a successful add by instance p the store file holds exactly the
\* collection p had loaded plus the new record, so a record that another
\* instance saved after p loaded is no longer in the file; and the cache of
\* the other instance is not told.
C19_LastWriterWins ==
    [][\A p \in Procs : (last'.op = "add" /\ last'.res = "ok" /\ last'.p = p) =>
          LET before == Loaded(p)
          IN  /\ Len(cache'[p].keys) = Len(before) + 1
              /\ SubSeq(cache'[p].keys, 1, Len(before)) = before
              /\ Stored(p)' = cache'[p].keys
              /\ Ids(Stored(p)) \ Ids(before) # {} =>
                    Ids(Stored(p)) \ Ids(Stored(p))' # {}
              /\ \A q \in Procs \ {p} : cache'[q] = cache[q]]_vars

\* instance 2 loaded the empty store, instance 1 added and saved record 1,
\* then instance 2 added and saved: record 1 is in the cache of instance 1
\* and no longer in the file
C19_Witness ==
    /\ last.op = "add" /\ last.res = "ok" /\ last.p = 2
    /\ Ids(cache[1].keys) = {1}
    /\ Ids(cache[2].keys) = {2}
    /\ Ids(Stored(1)) = {2}

\* an envelope of exactly two fields whose first is the hex of a 16-byte
\* initialization vector and nothing else
WellFormed(e) ==
    LET parts == split(e) IN
    /\ Len(parts) = 2
    /\ parts[1].tail = ""
    /\ parts[1].hex \in IVs

\* C20: decryptData fails, and returns no plaintext, on every envelope that
\* does not consist of exactly two fields or whose first field is not a
\* hex-encoded initialization vector.
C20_RejectsMalformed ==
    (last.op = "decryptData" /\ ~WellFormed(last.encrypted)) => last.res = "error"

\* what decryptData does reject: an envelope of one field, and one whose
\* first field does not decode to 16 bytes
C20_RejectsUnusable ==
    (/\ last.op = "decryptData"
     /\ \/ Len(split(last.encrypted)) < 2
        \/ UnHex(split(last.encrypted)[1]) \notin IVs)
    => last.res = "error" /\ last.decrypted = GarbageText

\* a three-field envelope was decrypted to the plaintext of its second field
C20_ExtraFieldAccepted ==
    /\ last.op = "decryptData" /\ last.res = "ok"
    /\ Len(split(last.encrypted)) = 3
    /\ last.decrypted = RawText("Hello")

\* an envelope whose first field has characters after its hex digits was
\* decrypted to the plaintext
C20_TrailingCharactersAccepted ==
    /\ last.op = "decryptData" /\ last.res = "ok"
    /\ split(last.encrypted)[1].tail # ""
    /\ last.decrypted = RawText("Hello")

\* a one-field envelope was refused
C20_Witness ==
    /\ last.op = "decryptData" /\ last.res = "error"
    /\ Len(split(last.encrypted)) = 1
    /\ UnHex(split(last.encrypted)[1]) \in IVs

Candidates(src) ==
    LET keys == readImport(src, Null, "throw").keys IN {keys[i] : i \in 1..Len(keys)}

\* C22 as stated: every record appended by a file import has an id no
\* record had before, created and last_modified equal to the time of the
\* import, and comes after all the records that were there, which stay.
C22_FreshIdAndTimes ==
    [][(last'.op = "import" /\ last'.res = "ok") =>
          /\ SubSeq(cache'[1].keys, 1, Len(Loaded(1))) = Loaded(1)
          /\ Len(Appended) = last'.imported
          /\ \A k \in 1..Len(Appended) :
                /\ Appended[k].id > nextId
                /\ Appended[k].created = clock
                /\ Appended[k].last_modified = clock]_vars

\* C22, amended: every record appended by a file import has an id no
\* record had before and last_modified equal to the time of the import;
\* its created is the one its candidate carries, and the time of the
\* import only when the candidate carries none; it comes after all the
\* records that were there, which stay as they were.
C22_FreshIdAndModified ==
    [][(last'.op = "import" /\ last'.res = "ok") =>
          /\ SubSeq(cache'[1].keys, 1, Len(Loaded(1))) = Loaded(1)
          /\ Len(Appended) = last'.imported
          /\ Stored(1)' = cache'[1].keys
          /\ \A k \in 1..Len(Appended) :
                LET rec == Appended[k] IN
                /\ rec.id > nextId /\ rec.id <= nextId'
                /\ \A j \in 1..Len(Appended) : j # k => Appended[j].id # rec.id
                /\ rec.last_modified = clock
                /\ \E cand \in Candidates(last'.src) :
                      /\ cand.key = rec.key /\ cand.name = rec.name
                      /\ rec.created = IF cand.created # NoTime THEN cand.created
                                        ELSE clock]_vars

\* after an add, at a later time, an import appended a record whose
\* candidate had no created: it has the time of the import
C22_Witness ==
    /\ last.op = "import" /\ last.res = "ok" /\ last.imported = 1
    /\ clock = 1
    /\ Len(cache[1].keys) = 2
    /\ cache[1].keys[1].name = "a"
    /\ cache[1].keys[2].name = "c"
    /\ cache[1].keys[2].id = nextId
    /\ cache[1].keys[2].created = 1 /\ cache[1].keys[2].last_modified = 1

\* C23: an edit never recomputes key_type: after any edit, also one that
\* replaces the material by text of another algorithm family, every record
\* has the key_type it had before the edit, in the cache and, when the save
\* succeeded, in the store file.
C23_EditKeepsKeyType ==
    [][last'.op = "edit" =>
          /\ Len(cache'[1].keys) = Len(Loaded(1))
          /\ \A k \in 1..Len(Loaded(1)) :
                /\ cache'[1].keys[k].id = Loaded(1)[k].id
                /\ cache'[1].keys[k].key_type = Loaded(1)[k].key_type
          /\ last'.res = "ok" =>
                /\ Len(Stored(1)') = Len(Loaded(1))
                /\ \A k \in 1..Len(Loaded(1)) :
                      Stored(1)'[k].key_type = Loaded(1)[k].key_type]_vars

\* the material of the first record, classified RSA when it was added, was
\* replaced by an Ed25519 text: the saved record is still RSA
C23_Witness ==
    /\ last.op = "edit" /\ last.res = "ok"
    /\ Len(Stored(1)) >= 1
    /\ Stored(1)[1].key = "ssh-ed25519 B"
    /\ detectKeyType(Stored(1)[1].key) = "Ed25519"
    /\ Stored(1)[1].key_type = "RSA"

\* C24: in every reachable state of one instance in which the cache is
\* present, the cache equals the collection obtained by decrypting the file
\* at the configured path with the active key, the empty collection if that
\* file is absent.
C24_CacheCoherent ==
    cache[1].present => cache[1].keys = Stored(1)

\* after a change of the path the cache still holds the record of the old
\* file, and there is no file at the configured path
C24_StaleAfterSetPath ==
    /\ last.op = "setPath"
    /\ cache[1].present /\ Len(cache[1].keys) = 1
    /\ ~StoreFile.exists
    /\ files[DefaultPath].exists

\* after a change of the password the cache still holds the record of a
\* file that the active key does not decrypt
C24_StaleAfterSetPassword ==
    /\ last.op = "setPassword"
    /\ cache[1].present /\ Len(cache[1].keys) = 1
    /\ WrongKey(1)
    /\ Stored(1) = <<>>

\* the ids of the records persisted in a file, whatever key made its envelope
PersistedIds(f) ==
    IF f.exists /\ f.text.kind = "envelope" /\ Len(split(f.text)) >= 2
    THEN LET pt == UnHex(split(f.text)[2]).pt IN
         IF JSONparse(pt).threw THEN {} ELSE Ids(JSONparse(pt).val)
    ELSE {}

\* C25: with no delete, every record persisted in the file at a path by a
\* successful save is still in that file after every later successful
\* save: no step of load, add, set or clear password, reset or of a new
\* instance takes a persisted record out of a file.
C25_NoRecordLost ==
    [][\A f \in Paths : PersistedIds(files[f]) \subseteq PersistedIds(files'[f])]_vars

\* record 1 was saved under the machine key; a password was set, a new
\* instance was made, and its add saved a file that holds record 2 alone
C25_LostAfterPasswordChange ==
    /\ last.op = "add" /\ last.res = "ok"
    /\ nextId = 2
    /\ config.keysFilePath = Null
    /\ PersistedIds(StoreFile) = {2}
    /\ EnvelopeKey(StoreFile.text) = deriveKeyFromPassword("secret")

\* the .pub files of a directory that can be read, in the order of readdir
ReadablePubs(d) == SelectSeq(pubFiles(Dirs[d].entries), LAMBDA e : e.readable)

\* how many records of a collection have this name
Named(keys, name) == Cardinality({k \in 1..Len(keys) : keys[k].name = name})

\* C26: a directory import appends one record for each readable .pub file,
\* in order, with the file's name, its trimmed text and a fresh id, whatever
\* records the collection already holds, and commits the batch with one
\* save; a scan import does the same for the selected keys; a directory
\* imported twice in succession leaves two records more per file than
\* before the first import.
C26_NoDuplicateRule ==
    [][(last'.op \in {"importDir", "importScan"} /\ last'.res = "ok") =>
          LET pubs == ReadablePubs(last'.dir) IN
          /\ SubSeq(cache'[1].keys, 1, Len(Loaded(1))) = Loaded(1)
          /\ Len(Appended) = last'.imported
          /\ Stored(1)' = cache'[1].keys
          /\ \A k \in 1..Len(Appended) : Appended[k].id = nextId + k
          /\ nextId' = nextId + Len(Appended)
          /\ last'.op = "importDir" =>
                /\ Len(Appended) = Len(pubs)
                /\ \A k \in 1..Len(pubs) :
                      /\ Appended[k].name = pubs[k].name
                      /\ Appended[k].key = Trim(pubs[k].content)
                /\ last'.again =>
                      \A k \in 1..Len(pubs) :
                          /\ Named(cache'[1].keys, pubs[k].name) >= 2
                          /\ Named(cache'[1].keys, pubs[k].name)
                                = Named(Loaded(1), pubs[k].name) + 1
          /\ last'.op = "importScan" =>
                /\ Len(Appended) >= 1
                /\ \A k \in 1..Len(Appended) :
                      \E j \in 1..Len(pubs) :
                          /\ Appended[k].name = pubs[j].name
                          /\ Appended[k].key = Trim(pubs[j].content)]_vars

\* the same directory was imported twice in succession: two records for
\* its one readable .pub file, alike but for their ids
C26_Witness ==
    /\ last.op = "importDir" /\ last.res = "ok" /\ last.again /\ last.dir = "ssh"
    /\ Len(Stored(1)) = 2
    /\ Stored(1)[1].name = "id_rsa.pub" /\ Stored(1)[2].name = "id_rsa.pub"
    /\ Stored(1)[1].key = Stored(1)[2].key
    /\ Stored(1)[1].id # Stored(1)[2].id

\* a scan import appended a record with the name and text of an added one
C26_ScanWitness ==
    /\ last.op = "importScan" /\ last.res = "ok"
    /\ Len(Stored(1)) = 2
    /\ Stored(1)[1].id = 1 /\ Stored(1)[2].id = 2
    /\ Stored(1)[1].name = Stored(1)[2].name
    /\ Stored(1)[1].key = Stored(1)[2].key

\* no two records of the collection have the same name or the same material
NoTwoAlike(keys) ==
    \A i, j \in 1..Len(keys) :
        i # j => (keys[i].name # keys[j].name /\ keys[i].key # keys[j].key)

\* the record came back as it was exported, but for id and last_modified
SameRecord(back, sent) ==
    /\ back.name = sent.name
    /\ back.tag = sent.tag
    /\ back.key = sent.key
    /\ back.key_type = sent.key_type
    /\ back.created = sent.created

\* C27 as stated: importing an export document, plain or under its one-off
\* password, into an empty store yields as many records as were exported,
\* in the same order, each with the name, tag, material, key_type and
\* created of the exported record.
C27_RoundTrip ==
    [][(/\ last'.op = "importFile" /\ last'.res = "ok"
        /\ Loaded(1) = <<>>
        /\ IsExportDoc(files[last'.path])) =>
          LET sent == DocOf(files[last'.path]).keys
              back == cache'[1].keys
          IN  /\ Len(back) = Len(sent)
              /\ \A k \in 1..Len(sent) : SameRecord(back[k], sent[k])]_vars

\* C27, amended: when no two exported records share a name or a material,
\* importing the document, plain or under its one-off password, into an
\* empty store yields as many records as were exported, in the same order,
\* each with the name, material, key_type and created of the exported
\* record and with its tag, an empty tag coming back as null; the store
\* file then holds them under the store's active key.
C27_RoundTripOfDistinct ==
    [][(/\ last'.op = "importFile" /\ last'.res = "ok"
        /\ Loaded(1) = <<>>
        /\ IsExportDoc(files[last'.path])) =>
          LET sent == DocOf(files[last'.path]).keys
              back == cache'[1].keys
          IN  /\ NoTwoAlike(sent) =>
                    /\ Len(back) = Len(sent)
                    /\ \A k \in 1..Len(sent) :
                          /\ SameRecord([back[k] EXCEPT !.tag = sent[k].tag], sent[k])
                          /\ back[k].tag = IF sent[k].tag = "" THEN Null ELSE sent[k].tag
                          /\ back[k].last_modified = clock
                    /\ Stored(1)' = back
                    /\ EnvelopeKey(files'[StorePath].text) = ActiveKey(1)
              /\ Len(back) <= Len(sent)]_vars

\* two records made at time 0 were exported under the one-off password and
\* imported later into the empty store at another path: both are there, in
\* order, with the created they had
C27_Witness ==
    /\ last.op = "importFile" /\ last.res = "ok" /\ last.password = "pw"
    /\ last.imported = 2
    /\ clock = 1
    /\ config.keysFilePath = "custom.enc"
    /\ Len(Stored(1)) = 2
    /\ Stored(1)[1].name = "a" /\ Stored(1)[2].name = "b"
    /\ Stored(1)[1].created = 0 /\ Stored(1)[2].created = 0
    /\ Stored(1)[2].tag = "t"
    /\ Ids(Stored(1)) = {3, 4}

\* a document of two records with one name was imported into the empty
\* store: the second was taken for a duplicate of the first
C27_SecondDropped ==
    /\ last.op = "importFile" /\ last.res = "ok" /\ last.imported = 1
    /\ config.keysFilePath = "custom.enc"
    /\ DocOf(files["export.json"]).total_keys = 2
    /\ ~NoTwoAlike(DocOf(files["export.json"]).keys)
    /\ Len(Stored(1)) = 1

====
